---- MODULE Spec2Model ----
(***************************************************************************)
(* icepeek: the reactive orchestration core (src/src/app.rs), the filter   *)
(* compiler (src/src/model/filter.rs) and the scan (src/src/loader/scan.rs) *)
(* as a state machine.  Background tasks are interleaved at their await     *)
(* points and at their accesses to the TABLE_HANDLE mutex; the foreground   *)
(* loop handles one key event or merges one bus message per step.           *)
(***************************************************************************)
EXTENDS Integers, Sequences, FiniteSets, TLC

\* ------------------------------------------------------------------------
\* Bounds of the model
\* ------------------------------------------------------------------------

\* number of user actions other than moving between tabs and into the filter bar
MaxActions == 1

\* number of successive user actions of a session on the Data tab
MaxBurst == 2

\* number of table-store calls that fail in a run
MaxFaults == 2

\* number of snapshot selections and manifest loads of a session on the
\* Snapshots and Files tabs
MaxSnap == 2

\* number of filter texts submitted in a session on the Data tab
MaxFilter == 2

\* number of snapshot selections and manifest loads of a session that selects
\* a snapshot and then revisits the Files tab
MaxFiles == 3

\* number of reloads and manifest loads of a session under a fair scheduler
MaxLoad == 1

\* number of reloads of a session in which columns are hidden and shown
MaxColumns == 1

\* number of user actions of a session that submits filters and then pages or reloads
MaxApplied == 3

\* number of manifest loads and snapshot selections of a session that opens the
\* Files tab, selects another snapshot and opens the Files tab again
MaxStale == 3

\* number of times more rows are asked for in a session that pages through a table
MaxPaging == 5

\* number of reloads and manifest loads of a session that ends with Quit
MaxQuit == 1

\* number of record batches handed to limit_batches in a call of its own
MaxBatches == 3

\* number of rows of one such batch
MaxBatchRows == 2

\* the largest limit handed to limit_batches in a call of its own
MaxLimitRows == 7

\* number of filter texts submitted in a session that compiles one
MaxCompile == 1

\* ------------------------------------------------------------------------
\* Option<T>: None is the empty tuple, Some(x) the one-element tuple
\* ------------------------------------------------------------------------

None == << >>

Some(x) == << x >>

is_some(o) == o # None

unwrap_or(o, d) == IF o = None THEN d ELSE o[1]

Min(a, b) == IF a <= b THEN a ELSE b

\* ------------------------------------------------------------------------
\* Command line (src/src/cli.rs)
\* ------------------------------------------------------------------------

DEFAULT_PAGE_SIZE == 500

effective_limit(cli_limit, no_limit) ==
    IF no_limit THEN None ELSE Some(unwrap_or(cli_limit, DEFAULT_PAGE_SIZE))

\* the --limit / --no-limit combinations the model starts from
CliArgs ==
    { [limit |-> Some(2), no_limit |-> FALSE],
      [limit |-> Some(2), no_limit |-> TRUE] }

\* ------------------------------------------------------------------------
\* Text: a string is a sequence of characters, each a one-character string; the
\* characters outside ASCII are named by their code point. Rust indexes a str by
\* UTF-8 byte, and slicing off a character boundary panics.
\* ------------------------------------------------------------------------

\* U+0131 (dotless i, two bytes) has the upper case "I" (one byte); U+0149 (n
\* preceded by apostrophe, two bytes) has the upper case U+02BC "N" (three bytes)
WideChars == { "U+0131", "U+0149", "U+02BC" }

\* char::len_utf8
len_utf8(c) == IF c \in WideChars THEN 2 ELSE 1

\* str::len: the length in bytes
RECURSIVE byte_len(_)
byte_len(s) == IF s = << >> THEN 0 ELSE len_utf8(s[1]) + byte_len(Tail(s))

\* the position of the character of s that starts at byte b (Len(s) + 1 for the
\* end of s), 0 when b is out of range or no character boundary
char_at_byte(s, b) ==
    LET ks == { k \in 1..(Len(s) + 1) : byte_len(SubSeq(s, 1, k - 1)) = b }
    IN  IF ks = {} THEN 0 ELSE CHOOSE k \in ks : TRUE

LowerCase == << "a", "b", "c", "d", "e", "f", "g", "h", "i", "j", "k", "l", "m",
                "n", "o", "p", "q", "r", "s", "t", "u", "v", "w", "x", "y", "z" >>

UpperCase == << "A", "B", "C", "D", "E", "F", "G", "H", "I", "J", "K", "L", "M",
                "N", "O", "P", "Q", "R", "S", "T", "U", "V", "W", "X", "Y", "Z" >>

Digits == << "0", "1", "2", "3", "4", "5", "6", "7", "8", "9" >>

Range(s) == { s[i] : i \in DOMAIN s }

IndexOf(s, c) == CHOOSE i \in DOMAIN s : s[i] = c

\* char::to_uppercase: the characters c is mapped to
to_uppercase_char(c) ==
    IF c \in Range(LowerCase) THEN << UpperCase[IndexOf(LowerCase, c)] >>
    ELSE IF c = "U+0131" THEN << "I" >>
    ELSE IF c = "U+0149" THEN << "U+02BC", "N" >>
    ELSE << c >>

to_lowercase_char(c) ==
    IF c \in Range(UpperCase) THEN LowerCase[IndexOf(UpperCase, c)] ELSE c

RECURSIVE to_uppercase(_)
to_uppercase(s) == IF s = << >> THEN << >> ELSE to_uppercase_char(s[1]) \o to_uppercase(Tail(s))

to_lowercase(s) == [i \in DOMAIN s |-> to_lowercase_char(s[i])]

is_whitespace(c) == c = " "

\* s[a..b], empty when a > b
Slice(s, a, b) == IF a > b THEN << >> ELSE SubSeq(s, a, b)

trim(s) ==
    LET keep == { i \in DOMAIN s : ~is_whitespace(s[i]) }
    IN  IF keep = {} THEN << >>
        ELSE LET lo == CHOOSE i \in keep : \A j \in keep : i <= j
                 hi == CHOOSE i \in keep : \A j \in keep : j <= i
             IN  SubSeq(s, lo, hi)

\* s[i..].starts_with(p), i a 1-based position
starts_with_at(s, i, p) ==
    /\ i + Len(p) - 1 <= Len(s)
    /\ \A k \in 1..Len(p) : s[i + k - 1] = p[k]

ends_with(s, p) ==
    /\ Len(p) <= Len(s)
    /\ \A k \in 1..Len(p) : s[Len(s) - Len(p) + k] = p[k]

\* str::find: the first position where p occurs, 0 when it does not
find(s, p) ==
    LET hits == { i \in 1..Len(s) : starts_with_at(s, i, p) }
    IN  IF hits = {} THEN 0 ELSE CHOOSE i \in hits : \A j \in hits : i <= j

\* the in_quote flag after the character at position i has been looked at
in_quote_at(s, i) == Cardinality({ j \in 1..i : s[j] = "'" }) % 2 = 1

\* ------------------------------------------------------------------------
\* Filter compiler (src/src/model/filter.rs)
\* A result is [ok |-> TRUE, val |-> v] or [ok |-> FALSE, err |-> message].
\* ------------------------------------------------------------------------

Ok(v) == [ok |-> TRUE, val |-> v]

Err(e) == [ok |-> FALSE, err |-> e]

KW_OR == << " ", "O", "R", " " >>

KW_AND == << " ", "A", "N", "D", " " >>

KW_IN == << " ", "I", "N", " " >>

KW_IS_NULL == << " ", "I", "S", " ", "N", "U", "L", "L" >>

KW_IS_NOT_NULL == << " ", "I", "S", " ", "N", "O", "T", " ", "N", "U", "L", "L" >>

\* the one-character operators tried before the two-character ones
operators_short_first ==
    << << ">" >>, << "<" >>, << "=" >>, << ">", "=" >>, << "<", "=" >>, << "!", "=" >> >>

\* the comparison operators in the order parse_comparison tries them
operators == << << ">", "=" >>, << "<", "=" >>, << "!", "=" >>, << ">" >>, << "<" >>, << "=" >> >>

\* i64 from an optional sign and decimal digits; None when the text is anything else
DigitValue(c) == IndexOf(Digits, c) - 1

RECURSIVE DigitsValue(_)
DigitsValue(s) ==
    IF s = << >> THEN 0
    ELSE 10 * DigitsValue(SubSeq(s, 1, Len(s) - 1)) + DigitValue(s[Len(s)])

AllDigits(s) == s # << >> /\ \A i \in DOMAIN s : s[i] \in Range(Digits)

parse_i64(val) ==
    LET signed == val # << >> /\ val[1] \in { "+", "-" }
        body   == IF signed THEN Tail(val) ELSE val
    IN  IF ~AllDigits(body) THEN None
        ELSE IF signed /\ val[1] = "-" THEN Some(0 - DigitsValue(body))
        ELSE Some(DigitsValue(body))

\* f64: an optional sign, then digits with at most one decimal point (at least one
\* digit), or inf / infinity / nan in any letter case; the Datum keeps the text
parse_f64(val) ==
    LET signed == val # << >> /\ val[1] \in { "+", "-" }
        body   == IF signed THEN Tail(val) ELSE val
        dots   == { i \in DOMAIN body : body[i] = "." }
        digs   == { i \in DOMAIN body : body[i] \in Range(Digits) }
        word   == to_lowercase(body)
    IN  IF \/ (digs # {} /\ Cardinality(dots) <= 1 /\ dots \cup digs = DOMAIN body)
           \/ word \in { << "i", "n", "f" >>, << "n", "a", "n" >>,
                         << "i", "n", "f", "i", "n", "i", "t", "y" >> }
        THEN Some(val)
        ELSE None

\* a Datum is [t, long], [t, double], [t, bool] or [t, string]; a Double keeps its text
string_to_datum(v) ==
    LET val == trim(v)
    IN  IF Len(val) >= 2 /\ val[1] = "'" /\ val[Len(val)] = "'"
        THEN [t |-> "String", string |-> Slice(val, 2, Len(val) - 1)]
        ELSE IF is_some(parse_i64(val)) THEN [t |-> "Long", long |-> parse_i64(val)[1]]
        ELSE IF is_some(parse_f64(val)) THEN [t |-> "Double", double |-> val]
        ELSE IF to_lowercase(val) = << "t", "r", "u", "e" >> THEN [t |-> "Bool", bool |-> TRUE]
        ELSE IF to_lowercase(val) = << "f", "a", "l", "s", "e" >> THEN [t |-> "Bool", bool |-> FALSE]
        ELSE [t |-> "String", string |-> val]

\* the character loop of parse_list_values over input[i..]
RECURSIVE list_values_from(_, _, _, _, _)
list_values_from(input, i, values, current, in_quote) ==
    IF i > Len(input)
    THEN IF trim(current) # << >> THEN Append(values, trim(current)) ELSE values
    ELSE LET c == input[i]
         IN  IF c = "'" THEN list_values_from(input, i + 1, values, current, ~in_quote)
             ELSE IF c = "," /\ ~in_quote
             THEN list_values_from(input, i + 1,
                      IF trim(current) # << >> THEN Append(values, trim(current)) ELSE values,
                      << >>, in_quote)
             ELSE IF in_quote \/ ~is_whitespace(c)
             THEN list_values_from(input, i + 1, values, Append(current, c), in_quote)
             ELSE list_values_from(input, i + 1, values, current, in_quote)

parse_list_values(input) == list_values_from(input, 1, << >>, << >>, FALSE)

find_keyword_pos(upper, keyword) ==
    LET hits == { i \in 1..Len(upper) :
                    ~in_quote_at(upper, i) /\ starts_with_at(upper, i, keyword) }
    IN  IF hits = {} THEN None ELSE Some(CHOOSE i \in hits : \A j \in hits : i <= j)

\* the outcome of a slice off a character boundary: the thread panics
Panic == [ok |-> FALSE, err |-> "panicked: byte index is not a char boundary"]

\* the result is kind "None", kind "Some" with the two sides, or kind "panic":
\* i runs over the characters of input by byte index and the same byte index is
\* used to slice upper
split_combinator(input, combinator) ==
    LET upper == to_uppercase(input)
        at(i) == char_at_byte(upper, byte_len(SubSeq(input, 1, i - 1)))
        stops == { i \in 1..Len(input) :
                     /\ ~in_quote_at(input, i)
                     /\ at(i) = 0 \/ starts_with_at(upper, at(i), combinator) }
    IN  IF stops = {} THEN [kind |-> "None", left |-> << >>, right |-> << >>]
        ELSE LET i == CHOOSE h \in stops : \A j \in stops : h <= j
                 rest == char_at_byte(input, byte_len(SubSeq(input, 1, i - 1)) + Len(combinator))
             IN  IF at(i) = 0 \/ rest = 0
                 THEN [kind |-> "panic", left |-> << >>, right |-> << >>]
                 ELSE [kind |-> "Some", left |-> trim(Slice(input, 1, i - 1)),
                       right |-> trim(Slice(input, rest, Len(input)))]

\* the first operator of the list, from index k on, that occurs in the input
RECURSIVE first_operator(_, _)
first_operator(input, k) ==
    IF k > Len(operators) THEN 0
    ELSE IF find(input, operators[k]) # 0 THEN k
    ELSE first_operator(input, k + 1)

\* in_pos and the lengths taken off the end are byte indexes into input
parse_comparison(inp) ==
    LET input == trim(inp)
        upper == to_uppercase(input)
        in_pos == find_keyword_pos(upper, KW_IN)
        not_null_col == char_at_byte(input, byte_len(input) - 12)
        null_col == char_at_byte(input, byte_len(input) - 8)
    IN  IF ends_with(upper, KW_IS_NOT_NULL)
        THEN IF not_null_col = 0 THEN Panic
             ELSE Ok([op |-> "IsNotNull", col |-> trim(Slice(input, 1, not_null_col - 1))])
        ELSE IF ends_with(upper, KW_IS_NULL)
        THEN IF null_col = 0 THEN Panic
             ELSE Ok([op |-> "IsNull", col |-> trim(Slice(input, 1, null_col - 1))])
        ELSE IF is_some(in_pos)
        THEN LET in_byte == byte_len(SubSeq(upper, 1, in_pos[1] - 1))
                 col_end == char_at_byte(input, in_byte)
                 list_start == char_at_byte(input, in_byte + 4)
                 col == trim(Slice(input, 1, col_end - 1))
                 list_part == trim(Slice(input, list_start, Len(input)))
             IN  IF col_end = 0 \/ list_start = 0 THEN Panic
                 ELSE IF list_part # << >> /\ list_part[1] = "(" /\ list_part[Len(list_part)] = ")"
                 THEN LET values == parse_list_values(Slice(list_part, 2, Len(list_part) - 1))
                      IN  Ok([op |-> "In", col |-> col,
                              values |-> [i \in DOMAIN values |-> string_to_datum(values[i])]])
                 ELSE Err("invalid IN expression")
        ELSE LET k == first_operator(input, 1)
             IN  IF k = 0 THEN Err("cannot parse filter expression")
                 ELSE LET pos == find(input, operators[k])
                      IN  Ok([op |-> "Compare", col |-> trim(Slice(input, 1, pos - 1)),
                              cmp |-> operators[k],
                              datum |-> string_to_datum(
                                  Slice(input, pos + Len(operators[k]), Len(input)))])

\* a combination that puts the right operand first
and_then_swapped(op, l, r) ==
    IF ~l.ok THEN l
    ELSE IF ~r.ok THEN r
    ELSE Ok([op |-> op, l |-> r.val, r |-> l.val])

\* let l = left?; let r = right?; Ok(combine(l, r)): the first error is returned
and_then(op, l, r) ==
    IF ~l.ok THEN l
    ELSE IF ~r.ok THEN r
    ELSE Ok([op |-> op, l |-> l.val, r |-> r.val])

RECURSIVE parse_and_expr(_)
parse_and_expr(input) ==
    LET parts == split_combinator(input, KW_AND)
    IN  IF parts.kind = "panic" THEN Panic
        ELSE IF parts.kind = "None" THEN parse_comparison(input)
        ELSE and_then("And", parse_comparison(parts.left), parse_and_expr(parts.right))

RECURSIVE parse_or_expr(_)
parse_or_expr(input) ==
    LET parts == split_combinator(input, KW_OR)
    IN  IF parts.kind = "panic" THEN Panic
        ELSE IF parts.kind = "None" THEN parse_and_expr(input)
        ELSE and_then("Or", parse_and_expr(parts.left), parse_or_expr(parts.right))

parse_filter(inp) ==
    LET input == trim(inp)
    IN  IF input = << >> THEN Err("empty filter expression") ELSE parse_or_expr(input)

\* Result::ok(): the value, or None on an error
ok(res) == IF res.ok THEN Some(res.val) ELSE None

\* filter::parse_filter(f).ok()
parse_ok(text) == ok(parse_filter(text))

\* ------------------------------------------------------------------------
\* The opened table (external table store): snapshots, manifests, row batches
\* ------------------------------------------------------------------------

\* a table with two snapshots, the second being its head; each snapshot lists its
\* manifests, each manifest the record counts of its live entries and of its
\* deleted ones
SampleTable ==
    [ snapshots |-> << 1, 2 >>,
      current_snapshot_id |-> Some(2),
      columns |-> << "a", "b" >>,
      manifests |-> << << [path |-> "m1", record_counts |-> << 3 >>, deleted_counts |-> << >>] >>,
                       << [path |-> "m1", record_counts |-> << 3 >>, deleted_counts |-> << >>],
                          [path |-> "m2", record_counts |-> << 2 >>, deleted_counts |-> << 1 >>]
                       >> >> ]

Tables == { SampleTable }

\* a table that has just been created: no snapshot, no manifest
EmptyTable ==
    [ snapshots |-> << >>,
      current_snapshot_id |-> None,
      columns |-> << "a", "b" >>,
      manifests |-> << >> ]

\* TableHandle::new
TableHandle(table) == [table |-> table]

\* metadata.snapshot_by_id / metadata.current_snapshot: the snapshot id or None
resolve_snapshot(table, snapshot_id) ==
    IF snapshot_id = None THEN table.current_snapshot_id
    ELSE IF snapshot_id[1] \in Range(table.snapshots) THEN snapshot_id
    ELSE None

\* TableHandle::extract_metadata (the fields the foreground reads)
extract_metadata(handle) ==
    [ snapshots |-> handle.table.snapshots,
      current_snapshot_id |-> handle.table.current_snapshot_id ]

RECURSIVE SumSeq(_)
SumSeq(s) == IF s = << >> THEN 0 ELSE s[1] + SumSeq(Tail(s))

\* a count that takes every entry of a manifest, deleted or not
count_every_entry(handle, snapshot_id) ==
    LET snap == resolve_snapshot(handle.table, snapshot_id)
    IN  IF snap = None THEN Err("no snapshot found")
        ELSE LET ms == handle.table.manifests[snap[1]]
             IN  Ok(SumSeq([i \in DOMAIN ms |->
                               SumSeq(ms[i].record_counts \o ms[i].deleted_counts)]))

\* TableHandle::count_total_rows when every read succeeds: the live record counts
\* of the snapshot's manifests, or an error when the snapshot does not resolve
count_total_rows(handle, snapshot_id) ==
    LET snap == resolve_snapshot(handle.table, snapshot_id)
    IN  IF snap = None THEN Err("no snapshot found")
        ELSE LET ms == handle.table.manifests[snap[1]]
             IN  Ok(SumSeq([i \in DOMAIN ms |-> SumSeq(ms[i].record_counts)]))

\* the record batches the table store streams for a request: one batch per data
\* file of the snapshot; a pushed-down filter drops one row of every file
scan_stream(handle, request) ==
    LET snap == resolve_snapshot(handle.table, request.snapshot_id)
        cols == IF request.columns = None THEN handle.table.columns ELSE request.columns[1]
        ms   == handle.table.manifests[snap[1]]
        drop == IF request.filter = None THEN 0 ELSE 1
    IN  IF snap = None THEN << >>
        ELSE [i \in DOMAIN ms |->
                 [snapshot |-> snap[1], filter |-> request.filter, file |-> i,
                  num_rows |-> SumSeq(ms[i].record_counts) - drop, columns |-> cols]]

\* ------------------------------------------------------------------------
\* Scan (src/src/loader/scan.rs, src/src/loader/arrow_convert.rs)
\* ------------------------------------------------------------------------

ScanRequest(columns, filter, snapshot_id, lim) ==
    [columns |-> columns, filter |-> filter, snapshot_id |-> snapshot_id, limit |-> lim]

\* ScanRequest { limit, ..Default::default() }
DefaultScanRequest(lim) == ScanRequest(None, None, None, lim)

total_row_count(batches) == SumSeq([i \in DOMAIN batches |-> batches[i].num_rows])

column_names(batches) == IF batches = << >> THEN << >> ELSE batches[1].columns

\* RecordBatch::slice(0, take)
slice(batch, take) == [batch EXCEPT !.num_rows = take]

RECURSIVE limit_batches_from(_, _, _, _)
limit_batches_from(batches, i, result, remaining) ==
    IF i > Len(batches) \/ remaining = 0 THEN result
    ELSE LET take == Min(remaining, batches[i].num_rows)
         IN  limit_batches_from(batches, i + 1, Append(result, slice(batches[i], take)),
                                remaining - take)

\* a limit that returns as many batches but slices none
limit_batches_whole(batches, lim) ==
    SubSeq(batches, 1, Len(limit_batches_from(batches, 1, << >>, lim)))

limit_batches(batches, lim) == limit_batches_from(batches, 1, << >>, lim)

\* the collection loop of execute_scan: << batches, collected >>
RECURSIVE collect_from(_, _, _, _, _)
collect_from(stream, i, batches, collected, lim) ==
    IF i > Len(stream) THEN << batches, collected >>
    ELSE LET c == collected + stream[i].num_rows
             b == Append(batches, stream[i])
         IN  IF lim # None /\ c >= lim[1] THEN << b, c >>
             ELSE collect_from(stream, i + 1, b, c, lim)

\* a scan that reports more rows only when it collected more than the limit
execute_scan_beyond(handle, request) ==
    LET got == collect_from(scan_stream(handle, request), 1, << >>, 0, request.limit)
        has_more == request.limit # None /\ got[2] > request.limit[1]
    IN  [ batches |-> IF request.limit # None THEN limit_batches(got[1], request.limit[1])
                      ELSE got[1],
          has_more |-> has_more ]

\* execute_scan when the table store reports no error
execute_scan(handle, request) ==
    LET got == collect_from(scan_stream(handle, request), 1, << >>, 0, request.limit)
        has_more == request.limit # None /\ got[2] >= request.limit[1]
    IN  [ batches |-> IF request.limit # None THEN limit_batches(got[1], request.limit[1])
                      ELSE got[1],
          has_more |-> has_more ]

\* ------------------------------------------------------------------------
\* State
\* ------------------------------------------------------------------------

VARIABLES
    limit,                 \* App.limit: Option<usize>
    page_size,             \* App.page_size
    has_more,              \* App.has_more
    selected_snapshot_id,  \* App.selected_snapshot_id: Option<i64>
    current_snapshot_id,   \* App.current_snapshot_id: Option<i64>
    active_tab,            \* App.active_tab
    filter_bar,            \* FilterBar: editing, applied_filter
    status_bar,            \* StatusBar
    data_view,             \* DataView
    snapshot_panel,        \* SnapshotPanel
    manifest_panel,        \* ManifestPanel
    TABLE_HANDLE,          \* the value inside the static Mutex<Option<TableHandle>>
    lock,                  \* the holder of that mutex: None or Holder(t)
    tasks,                 \* every spawned tokio task, in spawn order
    bus,                   \* the unbounded mpsc channel of AppMessage, oldest first
    budget,                \* user actions still to come, navigation aside
    faults,                \* table-store failures still to come
    store,                 \* the table the table store holds at the opened location
    initial_columns,       \* App.initial_columns: the --columns preference, if any
    column_selector,       \* ColumnSelector: columns, enabled, visible
    event_rx,              \* the receiving end of the terminal-event channel, held by run_app
    event_reader,          \* the blocking thread of spawn_event_reader
    ev                     \* the user action just handled, its argument, the state before it

app_vars == << limit, page_size, has_more, selected_snapshot_id, current_snapshot_id, active_tab >>

panel_vars == << filter_bar, status_bar, data_view, snapshot_panel, manifest_panel >>

vars == << limit, page_size, has_more, selected_snapshot_id, current_snapshot_id, active_tab,
           filter_bar, status_bar, data_view, snapshot_panel, manifest_panel,
           TABLE_HANDLE, lock, tasks, bus, budget, faults, store, initial_columns,
           column_selector, event_rx, event_reader, ev >>

\* Tab::ALL, so that Tab::from_index(i) is TabALL[i + 1]
TabALL == << "Data", "Schema", "Files", "Properties", "Snapshots" >>

\* the tab keys pressed in the model: Data, Files, Snapshots
TabKeys == { 0, 2, 4 }

\* the filter texts a user types in the model: empty, blank, compiling, not compiling
FilterTexts ==
    { << >>,
      << "a", " ", ">", " ", "1" >>,
      << "z", "z" >> }

\* ------------------------------------------------------------------------
\* AppMessage (src/src/event.rs)
\* ------------------------------------------------------------------------

DataReady(batches, total_rows, more) ==
    [type |-> "DataReady", batches |-> batches, total_rows |-> total_rows, has_more |-> more]

MetadataReady(metadata) == [type |-> "MetadataReady", metadata |-> metadata]

ManifestsReady(manifests) == [type |-> "ManifestsReady", manifests |-> manifests]

DataFileStatsReady(grouped) == [type |-> "DataFileStatsReady", grouped |-> grouped]

TotalRowCount(total) == [type |-> "TotalRowCount", total |-> total]

LoadingStarted(label) == [type |-> "LoadingStarted", label |-> label]

LoadingFinished == [type |-> "LoadingFinished"]

Error(text) == [type |-> "Error", text |-> text]

\* ------------------------------------------------------------------------
\* Tasks
\* ------------------------------------------------------------------------

\* a spawned task: its kind, where it is, what it was given, the handle it holds,
\* the manifest loop's accumulators, and the effects it has had so far
Task(kind, pc, request, handle) ==
    [kind |-> kind, pc |-> pc, request |-> request, handle |-> handle,
     infos |-> << >>, groups |-> << >>, log |-> << >>]

\* the pcs at which a task is suspended in a table-store I/O call
IOPcs == { "load", "scan", "count", "manifest_list", "manifest" }

MsgTypes(msgs) == [i \in DOMAIN msgs |-> msgs[i].type]

\* a step of a background task, a merge, or a navigation key
Quiet == [op |-> "quiet", arg |-> None, pre |-> None]

\* the foreground state a handler starts from
FgView ==
    [limit |-> limit, has_more |-> has_more, selected_snapshot_id |-> selected_snapshot_id,
     applied_filter |-> filter_bar.applied_filter, rows |-> data_view.batches,
     ntasks |-> Len(tasks), nbus |-> Len(bus)]

FgStep(op, arg) == [op |-> op, arg |-> arg, pre |-> FgView]

\* task t posts msgs, has the further effects named in more, and moves on as rec
TaskDoes(t, rec, msgs, more) ==
    /\ tasks' = [tasks EXCEPT ![t] = [rec EXCEPT !.log = tasks[t].log \o MsgTypes(msgs) \o more]]
    /\ bus' = bus \o msgs
    /\ ev' = Quiet

\* the task that holds the TABLE_HANDLE mutex
Holder(t) == << "task", t >>

\* a guard that outlives its statement
drop_guard_late(t) == Holder(t)

\* the MutexGuard of task t goes out of scope with its statement: the mutex is free
drop_guard(t) == None

\* a table-store call returns, with an error while failures are still to come
Returns(failed) ==
    /\ failed => faults > 0
    /\ faults' = IF failed THEN faults - 1 ELSE faults
    /\ store' = store
    /\ initial_columns' = initial_columns
    /\ event_rx' = event_rx
    /\ event_reader' = event_reader

fg_vars == << limit, page_size, has_more, selected_snapshot_id, current_snapshot_id, active_tab,
              filter_bar, status_bar, data_view, snapshot_panel, manifest_panel, budget,
              column_selector >>

\* the application's fields right after App::new, opened on one of the tables with
\* one of the column preferences and one of the --limit / --no-limit combinations
InitFields(n, f, tables, prefs, args) ==
    /\ store \in tables
    /\ initial_columns \in prefs
    /\ column_selector = [columns |-> << >>, enabled |-> << >>, visible |-> FALSE]
    /\ \E cli \in args :
          /\ limit = effective_limit(cli.limit, cli.no_limit)
          /\ page_size = unwrap_or(cli.limit, DEFAULT_PAGE_SIZE)
    /\ has_more = FALSE
    /\ selected_snapshot_id = None
    /\ current_snapshot_id = None
    /\ active_tab = "Data"
    /\ filter_bar = [editing |-> FALSE, applied_filter |-> None]
    /\ status_bar = [loaded_rows |-> 0, table_total_rows |-> None, filtered_rows |-> None,
                     loading_message |-> None, error_message |-> None,
                     filter_active |-> FALSE, has_more |-> FALSE,
                     selected_snapshot_id |-> None, current_snapshot_id |-> None,
                     visible_columns |-> 0, total_columns |-> 0]
    /\ data_view = [batches |-> << >>, all_columns |-> << >>, visible_columns |-> << >>,
                    total_rows |-> 0, has_more |-> FALSE]
    /\ snapshot_panel = [snapshots |-> << >>, current_snapshot_id |-> None,
                         viewed_snapshot_id |-> None]
    /\ manifest_panel = [manifests |-> << >>, files_by_manifest |-> << >>, loaded |-> FALSE]
    /\ TABLE_HANDLE = None
    /\ lock = None
    /\ bus = << >>
    /\ budget = n
    /\ faults = f
    /\ event_rx = "open"
    /\ event_reader = "polling"
    /\ ev = [op |-> "init", arg |-> None, pre |-> None]

\* the application right after App::new and spawn_initial_load
InitCli(n, f, tables, prefs, args) ==
    /\ InitFields(n, f, tables, prefs, args)
    /\ tasks = << Task("initial_load", "start", DefaultScanRequest(limit), None) >>

\* opened with --limit 2, with or without --no-limit
InitApp(n, f, tables, prefs) == InitCli(n, f, tables, prefs, CliArgs)

\* opened without a column preference
InitOn(n, f, tables) == InitApp(n, f, tables, { None })

InitWith(n, f) == InitOn(n, f, Tables)

\* ------------------------------------------------------------------------
\* Background tasks (src/src/app.rs)
\* ------------------------------------------------------------------------

\* spawn_count_rows: the task owns the handle it is given
CountTask(handle, snapshot_id) ==
    Task("count_rows", "count", ScanRequest(None, None, snapshot_id, None), Some(handle))

\* spawn_rescan: the task starts with the request's parts and no handle yet
RescanTask(predicate, columns, snapshot_id, lim) ==
    Task("rescan", "start",
         ScanRequest(IF columns = << >> THEN None ELSE Some(columns), predicate, snapshot_id, lim),
         None)

\* the task spawned around load_manifests
ManifestTask(snap_id) ==
    Task("load_manifests", "start", ScanRequest(None, None, snap_id, None), None)

\* the message a finished scan posts
ScanMessage(handle, request, failed) ==
    IF failed THEN Error("Scan error")
    ELSE LET result == execute_scan(handle, request)
         IN  DataReady(result.batches, total_row_count(result.batches), result.has_more)

\* spawn_initial_load, up to the await of load_direct / load_from_catalog
InitialLoadStart(t) ==
    /\ tasks[t].kind = "initial_load" /\ tasks[t].pc = "start"
    /\ TaskDoes(t, [tasks[t] EXCEPT !.pc = "load"], << LoadingStarted("Loading table...") >>, << >>)
    /\ UNCHANGED << fg_vars, TABLE_HANDLE, lock >>
    /\ UNCHANGED << event_rx, event_reader, faults, store, initial_columns >>

\* the load returns: an error ends the task; a handle has its metadata posted and
\* the task goes on to the await of execute_scan
InitialLoadLoaded(t) ==
    /\ tasks[t].kind = "initial_load" /\ tasks[t].pc = "load"
    /\ \/ /\ Returns(TRUE)
          /\ TaskDoes(t, [tasks[t] EXCEPT !.pc = "done"],
                      << Error("Load error"), LoadingFinished >>, << >>)
       \/ \E table \in { store } :
             LET handle == TableHandle(table)
             IN  /\ Returns(FALSE)
                 /\ TaskDoes(t, [tasks[t] EXCEPT !.pc = "scan", !.handle = Some(handle)],
                             << MetadataReady(extract_metadata(handle)),
                                LoadingStarted("Scanning data...") >>, << "Scan" >>)
    /\ UNCHANGED << fg_vars, TABLE_HANDLE, lock >>

\* an initial load that ends the loading indicator before it posts the scan's result
InitialLoadScanned_finish_first(t) ==
    /\ tasks[t].kind = "initial_load" /\ tasks[t].pc = "scan"
    /\ \E failed \in BOOLEAN :
          /\ Returns(failed)
          /\ TaskDoes(t, [tasks[t] EXCEPT !.pc = "install"],
                      << LoadingFinished,
                         ScanMessage(tasks[t].handle[1], tasks[t].request, failed) >>, << >>)
    /\ UNCHANGED << fg_vars, TABLE_HANDLE, lock >>

\* the scan returns: DataReady or Error, then LoadingFinished; next the task
\* installs its handle
InitialLoadScanned(t) ==
    /\ tasks[t].kind = "initial_load" /\ tasks[t].pc = "scan"
    /\ \E failed \in BOOLEAN :
          /\ Returns(failed)
          /\ TaskDoes(t, [tasks[t] EXCEPT !.pc = "install"],
                      << ScanMessage(tasks[t].handle[1], tasks[t].request, failed),
                         LoadingFinished >>, << >>)
    /\ UNCHANGED << fg_vars, TABLE_HANDLE, lock >>

\* TABLE_HANDLE.lock().unwrap(): the task waits until the mutex is free
InitialLoadLock(t) ==
    /\ tasks[t].kind = "initial_load" /\ tasks[t].pc = "install"
    /\ lock = None
    /\ lock' = Holder(t)
    /\ tasks' = [tasks EXCEPT ![t].pc = "locked"]
    /\ ev' = Quiet
    /\ UNCHANGED << fg_vars, TABLE_HANDLE, bus >>
    /\ UNCHANGED << event_rx, event_reader, faults, store, initial_columns >>

\* .replace(handle.clone()), the guard dropped with the statement, and
\* spawn_count_rows(msg_tx.clone(), handle, None)
InitialLoadInstall(t) ==
    /\ tasks[t].kind = "initial_load" /\ tasks[t].pc = "locked"
    /\ lock = Holder(t)
    /\ TABLE_HANDLE' = tasks[t].handle
    /\ lock' = drop_guard(t)
    /\ tasks' = Append([tasks EXCEPT ![t].pc = "done",
                                     ![t].log = tasks[t].log \o << "Install", "SpawnCount" >>],
                       CountTask(tasks[t].handle[1], None))
    /\ ev' = Quiet
    /\ UNCHANGED << fg_vars, bus >>
    /\ UNCHANGED << event_rx, event_reader, faults, store, initial_columns >>

\* spawn_rescan, up to the read of TABLE_HANDLE
RescanStart(t) ==
    /\ tasks[t].kind = "rescan" /\ tasks[t].pc = "start"
    /\ TaskDoes(t, [tasks[t] EXCEPT !.pc = "handle"], << LoadingStarted("Scanning...") >>, << >>)
    /\ UNCHANGED << fg_vars, TABLE_HANDLE, lock >>
    /\ UNCHANGED << event_rx, event_reader, faults, store, initial_columns >>

\* TABLE_HANDLE.lock().unwrap(): the task waits until the mutex is free
RescanLock(t) ==
    /\ tasks[t].kind = "rescan" /\ tasks[t].pc = "handle"
    /\ lock = None
    /\ lock' = Holder(t)
    /\ tasks' = [tasks EXCEPT ![t].pc = "locked"]
    /\ ev' = Quiet
    /\ UNCHANGED << fg_vars, TABLE_HANDLE, bus >>
    /\ UNCHANGED << event_rx, event_reader, faults, store, initial_columns >>

\* an else block that only ends the loading indicator
rescan_no_handle_silent == << LoadingFinished >>

\* the else block of spawn_rescan's let-else: what a rescan without a handle posts
rescan_no_handle == << Error("No table loaded"), LoadingFinished >>

\* a rescan that takes the handle out of the slot instead of cloning it
RescanHandle_take(t) ==
    /\ tasks[t].kind = "rescan" /\ tasks[t].pc = "locked"
    /\ lock = Holder(t)
    /\ lock' = drop_guard(t)
    /\ TABLE_HANDLE' = None
    /\ IF TABLE_HANDLE = None
       THEN TaskDoes(t, [tasks[t] EXCEPT !.pc = "done"], rescan_no_handle, << >>)
       ELSE TaskDoes(t, [tasks[t] EXCEPT !.pc = "scan", !.handle = TABLE_HANDLE],
                     << >>, << "Scan" >>)
    /\ UNCHANGED fg_vars
    /\ UNCHANGED << event_rx, event_reader, faults, store, initial_columns >>

\* let Some(handle) = <guard>.clone() else { ... }: the guard is dropped with the
\* statement; without a handle the task reports and ends
RescanHandle(t) ==
    /\ tasks[t].kind = "rescan" /\ tasks[t].pc = "locked"
    /\ lock = Holder(t)
    /\ lock' = drop_guard(t)
    /\ IF TABLE_HANDLE = None
       THEN TaskDoes(t, [tasks[t] EXCEPT !.pc = "done"], rescan_no_handle, << >>)
       ELSE TaskDoes(t, [tasks[t] EXCEPT !.pc = "scan", !.handle = TABLE_HANDLE],
                     << >>, << "Scan" >>)
    /\ UNCHANGED << fg_vars, TABLE_HANDLE >>
    /\ UNCHANGED << event_rx, event_reader, faults, store, initial_columns >>

\* the scan returns: DataReady or Error, then LoadingFinished
RescanScanned(t) ==
    /\ tasks[t].kind = "rescan" /\ tasks[t].pc = "scan"
    /\ \E failed \in BOOLEAN :
          /\ Returns(failed)
          /\ TaskDoes(t, [tasks[t] EXCEPT !.pc = "done"],
                      << ScanMessage(tasks[t].handle[1], tasks[t].request, failed),
                         LoadingFinished >>, << >>)
    /\ UNCHANGED << fg_vars, TABLE_HANDLE, lock >>

\* spawn_count_rows: a total is posted, a failure is dropped
CountRows(t) ==
    /\ tasks[t].kind = "count_rows" /\ tasks[t].pc = "count"
    /\ \E failed \in BOOLEAN :
          /\ Returns(failed)
          /\ LET total == count_total_rows(tasks[t].handle[1], tasks[t].request.snapshot_id)
             IN  IF failed \/ ~total.ok
                 THEN TaskDoes(t, [tasks[t] EXCEPT !.pc = "done"], << >>, << >>)
                 ELSE TaskDoes(t, [tasks[t] EXCEPT !.pc = "done"],
                               << TotalRowCount(total.val) >>, << >>)
    /\ UNCHANGED << fg_vars, TABLE_HANDLE, lock >>

\* the task spawned around load_manifests, up to the read of TABLE_HANDLE
LoadManifestsStart(t) ==
    /\ tasks[t].kind = "load_manifests" /\ tasks[t].pc = "start"
    /\ TaskDoes(t, [tasks[t] EXCEPT !.pc = "handle"],
                << LoadingStarted("Loading manifests...") >>, << >>)
    /\ UNCHANGED << fg_vars, TABLE_HANDLE, lock >>
    /\ UNCHANGED << event_rx, event_reader, faults, store, initial_columns >>

\* load_manifests, TABLE_HANDLE.lock().unwrap(): the task waits until the mutex is free
LoadManifestsLock(t) ==
    /\ tasks[t].kind = "load_manifests" /\ tasks[t].pc = "handle"
    /\ lock = None
    /\ lock' = Holder(t)
    /\ tasks' = [tasks EXCEPT ![t].pc = "locked"]
    /\ ev' = Quiet
    /\ UNCHANGED << fg_vars, TABLE_HANDLE, bus >>
    /\ UNCHANGED << event_rx, event_reader, faults, store, initial_columns >>

\* a run that reports a snapshot it cannot resolve as an error
no_snapshot_error == << Error("No snapshot found") >>

\* load_manifests, let Some(snapshot) = snapshot else: what is posted for a
\* snapshot that does not resolve
no_snapshot_results == << ManifestsReady(<< >>), DataFileStatsReady(<< >>) >>

\* load_manifests: the handle is cloned and the guard dropped; no handle is an
\* Error, an unresolved snapshot two empty results, otherwise the manifest list
\* is awaited
LoadManifestsHandle(t) ==
    /\ tasks[t].kind = "load_manifests" /\ tasks[t].pc = "locked"
    /\ lock = Holder(t)
    /\ lock' = drop_guard(t)
    /\ IF TABLE_HANDLE = None
       THEN TaskDoes(t, [tasks[t] EXCEPT !.pc = "done"],
                     << Error("No table loaded"), LoadingFinished >>, << >>)
       ELSE IF resolve_snapshot(TABLE_HANDLE[1].table, tasks[t].request.snapshot_id) = None
       THEN TaskDoes(t, [tasks[t] EXCEPT !.pc = "done", !.handle = TABLE_HANDLE],
                     no_snapshot_results \o << LoadingFinished >>, << >>)
       ELSE TaskDoes(t, [tasks[t] EXCEPT !.pc = "manifest_list", !.handle = TABLE_HANDLE],
                     << >>, << >>)
    /\ UNCHANGED << fg_vars, TABLE_HANDLE >>
    /\ UNCHANGED << event_rx, event_reader, faults, store, initial_columns >>

\* the manifests of the snapshot the task resolved
TaskManifests(t) ==
    LET table == tasks[t].handle[1].table
    IN  table.manifests[resolve_snapshot(table, tasks[t].request.snapshot_id)[1]]

\* ManifestInfo of a manifest-list entry
ManifestInfo(mf) == [path |-> mf.path]

\* the results without the closing LoadingFinished
ManifestResults_unfinished(infos, groups) ==
    << ManifestsReady(infos), DataFileStatsReady(groups) >>

\* the results load_manifests posts after its loop, and the task's LoadingFinished
ManifestResults(infos, groups) ==
    << ManifestsReady(infos), DataFileStatsReady(groups), LoadingFinished >>

\* a run that posts the summaries as soon as the manifest list is read
LoadManifestsList_early(t) ==
    /\ tasks[t].kind = "load_manifests" /\ tasks[t].pc = "manifest_list"
    /\ \E failed \in BOOLEAN :
          /\ Returns(failed)
          /\ IF failed
             THEN TaskDoes(t, [tasks[t] EXCEPT !.pc = "done"],
                           << Error("Failed to load manifest list"), LoadingFinished >>, << >>)
             ELSE IF TaskManifests(t) = << >>
             THEN TaskDoes(t, [tasks[t] EXCEPT !.pc = "done"],
                           ManifestResults(<< >>, << >>), << >>)
             ELSE TaskDoes(t, [tasks[t] EXCEPT !.pc = "manifest",
                                               !.infos = << ManifestInfo(TaskManifests(t)[1]) >>],
                           << ManifestsReady([i \in DOMAIN TaskManifests(t) |->
                                                 ManifestInfo(TaskManifests(t)[i])]) >>, << >>)
    /\ UNCHANGED << fg_vars, TABLE_HANDLE, lock >>

\* load_manifest_list returns: an error ends the run; otherwise the loop pushes
\* the first entry's summary and awaits its manifest
LoadManifestsList(t) ==
    /\ tasks[t].kind = "load_manifests" /\ tasks[t].pc = "manifest_list"
    /\ \E failed \in BOOLEAN :
          /\ Returns(failed)
          /\ IF failed
             THEN TaskDoes(t, [tasks[t] EXCEPT !.pc = "done"],
                           << Error("Failed to load manifest list"), LoadingFinished >>, << >>)
             ELSE IF TaskManifests(t) = << >>
             THEN TaskDoes(t, [tasks[t] EXCEPT !.pc = "done"],
                           ManifestResults(<< >>, << >>), << >>)
             ELSE TaskDoes(t, [tasks[t] EXCEPT !.pc = "manifest",
                                               !.infos = << ManifestInfo(TaskManifests(t)[1]) >>],
                           << >>, << >>)
    /\ UNCHANGED << fg_vars, TABLE_HANDLE, lock >>

\* a run that gives up at the first manifest that fails to load
LoadManifestsEntry_abort(t) ==
    /\ tasks[t].kind = "load_manifests" /\ tasks[t].pc = "manifest"
    /\ \E failed \in BOOLEAN :
          /\ Returns(failed)
          /\ LET ms     == TaskManifests(t)
                 i      == Len(tasks[t].groups) + 1
                 groups == Append(tasks[t].groups, ms[i].record_counts)
             IN  IF failed
                 THEN TaskDoes(t, [tasks[t] EXCEPT !.pc = "done"],
                               << Error("Failed to load manifest"), LoadingFinished >>, << >>)
                 ELSE IF i = Len(ms)
                 THEN TaskDoes(t, [tasks[t] EXCEPT !.pc = "done", !.groups = groups],
                               ManifestResults(tasks[t].infos, groups), << >>)
                 ELSE TaskDoes(t, [tasks[t] EXCEPT !.groups = groups,
                                       !.infos = Append(tasks[t].infos, ManifestInfo(ms[i + 1]))],
                               << >>, << >>)
    /\ UNCHANGED << fg_vars, TABLE_HANDLE, lock >>

\* load_manifest of the current entry returns: its live files become a group, or
\* an Error is posted and the group is empty; after the last entry the results
\* are posted
LoadManifestsEntry(t) ==
    /\ tasks[t].kind = "load_manifests" /\ tasks[t].pc = "manifest"
    /\ \E failed \in BOOLEAN :
          /\ Returns(failed)
          /\ LET ms     == TaskManifests(t)
                 i      == Len(tasks[t].groups) + 1
                 groups == Append(tasks[t].groups,
                                  IF failed THEN << >> ELSE ms[i].record_counts)
                 errs   == IF failed THEN << Error("Failed to load manifest") >> ELSE << >>
             IN  IF i = Len(ms)
                 THEN TaskDoes(t, [tasks[t] EXCEPT !.pc = "done", !.groups = groups],
                               errs \o ManifestResults(tasks[t].infos, groups), << >>)
                 ELSE TaskDoes(t, [tasks[t] EXCEPT !.groups = groups,
                                       !.infos = Append(tasks[t].infos, ManifestInfo(ms[i + 1]))],
                               errs, << >>)
    /\ UNCHANGED << fg_vars, TABLE_HANDLE, lock >>

\* ------------------------------------------------------------------------
\* Foreground: merging a message (App::handle_message and the components')
\* ------------------------------------------------------------------------

Reverse(s) == [i \in DOMAIN s |-> s[Len(s) + 1 - i]]

\* a data view that keeps what it shows when a result with fewer rows arrives
data_view_keep_larger(dv, msg) ==
    IF msg.type = "DataReady" /\ msg.total_rows >= dv.total_rows
    THEN [ batches |-> msg.batches, total_rows |-> msg.total_rows,
           has_more |-> msg.has_more, all_columns |-> column_names(msg.batches),
           visible_columns |-> column_names(msg.batches) ]
    ELSE dv

\* DataView::handle_message
data_view_handle_message(dv, msg) ==
    IF msg.type = "DataReady"
    THEN LET new_cols == column_names(msg.batches)
             schema_changed == dv.all_columns # new_cols
         IN  [ batches |-> msg.batches, total_rows |-> msg.total_rows,
               has_more |-> msg.has_more, all_columns |-> new_cols,
               visible_columns |-> IF schema_changed \/ dv.visible_columns = << >>
                                   THEN new_cols ELSE dv.visible_columns ]
    ELSE dv

\* SnapshotPanel::handle_message: the snapshots newest first (ids grow with time)
snapshot_panel_handle_message(sp, msg) ==
    IF msg.type = "MetadataReady"
    THEN [sp EXCEPT !.snapshots = Reverse(msg.metadata.snapshots),
                    !.current_snapshot_id = msg.metadata.current_snapshot_id]
    ELSE sp

\* ManifestPanel::handle_message
manifest_panel_handle_message(mp, msg) ==
    IF msg.type = "ManifestsReady"
    THEN [mp EXCEPT !.manifests = msg.manifests, !.loaded = TRUE]
    ELSE IF msg.type = "DataFileStatsReady"
    THEN [mp EXCEPT !.files_by_manifest = msg.grouped]
    ELSE mp

\* a status bar on which LoadingFinished has no effect
status_bar_ignore_finished(sb, msg) ==
    IF msg.type = "DataReady"
    THEN IF sb.filter_active
         THEN [sb EXCEPT !.has_more = msg.has_more, !.filtered_rows = Some(msg.total_rows),
                         !.loading_message = None]
         ELSE [sb EXCEPT !.has_more = msg.has_more, !.loaded_rows = msg.total_rows,
                         !.filtered_rows = None, !.loading_message = None]
    ELSE IF msg.type = "TotalRowCount"
    THEN [sb EXCEPT !.table_total_rows = Some(msg.total)]
    ELSE IF msg.type = "LoadingStarted"
    THEN [sb EXCEPT !.loading_message = Some(msg.label), !.error_message = None]
    ELSE IF msg.type = "Error"
    THEN [sb EXCEPT !.error_message = Some(msg.text), !.loading_message = None]
    ELSE sb

\* StatusBar::handle_message
status_bar_handle_message(sb, msg) ==
    IF msg.type = "DataReady"
    THEN IF sb.filter_active
         THEN [sb EXCEPT !.has_more = msg.has_more, !.filtered_rows = Some(msg.total_rows),
                         !.loading_message = None]
         ELSE [sb EXCEPT !.has_more = msg.has_more, !.loaded_rows = msg.total_rows,
                         !.filtered_rows = None, !.loading_message = None]
    ELSE IF msg.type = "TotalRowCount"
    THEN [sb EXCEPT !.table_total_rows = Some(msg.total)]
    ELSE IF msg.type = "LoadingStarted"
    THEN [sb EXCEPT !.loading_message = Some(msg.label), !.error_message = None]
    ELSE IF msg.type = "LoadingFinished"
    THEN [sb EXCEPT !.loading_message = None]
    ELSE IF msg.type = "Error"
    THEN [sb EXCEPT !.error_message = Some(msg.text), !.loading_message = None]
    ELSE sb

\* a merge that never records the head snapshot id
current_snapshot_id_forgotten(msg) == current_snapshot_id

\* App::handle_message on MetadataReady: the head snapshot id
current_snapshot_id_after(msg) ==
    IF msg.type = "MetadataReady" THEN msg.metadata.current_snapshot_id
    ELSE current_snapshot_id

\* a merge that only ever lowers has_more
has_more_after_lowered(msg) == IF msg.type = "DataReady" THEN has_more /\ msg.has_more ELSE has_more

\* App::handle_message on DataReady: has_more
has_more_after(msg) == IF msg.type = "DataReady" THEN msg.has_more ELSE has_more

\* a merge that takes the number of batches for the number of rows
limit_after_batches(msg) == IF msg.type = "DataReady" THEN Some(Len(msg.batches)) ELSE limit

\* App::handle_message on DataReady: limit
limit_after(msg) == IF msg.type = "DataReady" THEN Some(msg.total_rows) ELSE limit

\* App::handle_message on DataReady: the columns shown as enabled, given the data
\* view dv the components' merge has left
vis_cols(dv) == IF initial_columns # None THEN initial_columns[1] ELSE dv.all_columns

\* ColumnSelector::set_columns
set_columns(cs, columns, visible) ==
    [cs EXCEPT !.columns = columns,
               !.enabled = [i \in DOMAIN columns |-> columns[i] \in Range(visible)]]

\* App::handle_message on DataReady: the column selector
column_selector_after(dv, msg) ==
    IF msg.type = "DataReady" THEN set_columns(column_selector, dv.all_columns, vis_cols(dv))
    ELSE column_selector

\* App::handle_message on DataReady: the status bar's column counts
status_bar_columns(sb, dv, msg) ==
    IF msg.type = "DataReady"
    THEN [sb EXCEPT !.visible_columns = Len(vis_cols(dv)), !.total_columns = Len(dv.all_columns)]
    ELSE sb

\* App::handle_message on DataReady: a column preference is applied to the data view
data_view_columns(dv, msg) ==
    IF msg.type = "DataReady" /\ initial_columns # None
    THEN [dv EXCEPT !.visible_columns = vis_cols(dv)]
    ELSE dv

\* one turn of the select! loop on msg_rx: the oldest message is merged
HandleMessage ==
    /\ bus # << >>
    /\ LET msg == Head(bus)
       IN  /\ data_view' = data_view_columns(data_view_handle_message(data_view, msg), msg)
           /\ snapshot_panel' = snapshot_panel_handle_message(snapshot_panel, msg)
           /\ manifest_panel' = manifest_panel_handle_message(manifest_panel, msg)
           /\ status_bar' = status_bar_columns(status_bar_handle_message(status_bar, msg),
                                               data_view_handle_message(data_view, msg), msg)
           /\ column_selector' = column_selector_after(data_view_handle_message(data_view, msg), msg)
           /\ current_snapshot_id' = current_snapshot_id_after(msg)
           /\ has_more' = has_more_after(msg)
           /\ limit' = limit_after(msg)
           /\ ev' = Quiet
    /\ bus' = Tail(bus)
    /\ UNCHANGED << page_size, selected_snapshot_id, active_tab, filter_bar,
                    TABLE_HANDLE, lock, tasks, budget >>
    /\ UNCHANGED << event_rx, event_reader, faults, store, initial_columns >>

\* ------------------------------------------------------------------------
\* Foreground: key events (App::handle_key, then App::handle_action)
\* ------------------------------------------------------------------------

\* a key reaches the application's own bindings only while run_app is in its loop,
\* outside the column selector and outside filter editing
KeysFree ==
    /\ ev.op # "panic" /\ event_rx = "open"
    /\ ~column_selector.visible /\ ~filter_bar.editing

\* room for one more user action
CanSpawn == budget > 0

\* a request that forgets the applied filter
applied_predicate_none == None

\* filter_bar.applied_filter().and_then(|f| filter::parse_filter(f).ok())
applied_predicate ==
    IF filter_bar.applied_filter = None THEN None
    ELSE parse_ok(filter_bar.applied_filter[1])

\* Action::SwitchTab(idx): entering the Files tab loads the manifests when needed
SwitchTab(idx) ==
    /\ KeysFree
    /\ LET tab == TabALL[idx + 1]
           load == tab = "Files" /\ ~manifest_panel.loaded
       IN  /\ active_tab' = tab
           /\ load => CanSpawn
           /\ tasks' = IF load THEN Append(tasks, ManifestTask(selected_snapshot_id)) ELSE tasks
           /\ budget' = IF load THEN budget - 1 ELSE budget
    /\ ev' = Quiet
    /\ UNCHANGED << limit, page_size, has_more, selected_snapshot_id, current_snapshot_id,
                    panel_vars, TABLE_HANDLE, lock, bus >>
    /\ UNCHANGED << event_rx, event_reader, faults, store, initial_columns, column_selector >>

\* '/' in the data view, then Action::FocusFilter: the filter bar starts editing
FocusFilter ==
    /\ KeysFree
    /\ active_tab = "Data"
    /\ filter_bar' = [filter_bar EXCEPT !.editing = TRUE]
    /\ ev' = Quiet
    /\ UNCHANGED << app_vars, status_bar, data_view, snapshot_panel, manifest_panel,
                    TABLE_HANDLE, lock, tasks, bus, budget >>
    /\ UNCHANGED << event_rx, event_reader, faults, store, initial_columns, column_selector >>

\* Esc in the filter bar: editing ends, nothing is submitted
CancelFilter ==
    /\ filter_bar.editing
    /\ filter_bar' = [filter_bar EXCEPT !.editing = FALSE]
    /\ ev' = Quiet
    /\ UNCHANGED << app_vars, status_bar, data_view, snapshot_panel, manifest_panel,
                    TABLE_HANDLE, lock, tasks, bus, budget >>
    /\ UNCHANGED << event_rx, event_reader, faults, store, initial_columns, column_selector >>

\* FilterBar::handle_key(Enter): the applied filter the bar records for a text
applied_filter_on_enter(text) == IF trim(text) = << >> THEN None ELSE Some(trim(text))

\* a submission that keeps the limit it finds
submit_filter_limit_kept == limit

\* App::handle_action(SubmitFilter): the limit it leaves
submit_filter_limit == Some(page_size)

\* a compile failure that is swallowed
filter_error_silent == << >>

\* what a compile failure sends: AppMessage::Error("Filter error: ...")
filter_error == << Error("Filter error") >>

\* Enter in the filter bar, then Action::SubmitFilter(filter_text). A panic of the
\* compiler unwinds run_app: the process exits, its tasks and messages are dropped
\* and no key is read any more.
SubmitFilter(text) ==
    /\ filter_bar.editing
    /\ LET filter_text == trim(text)
           parsed == parse_filter(filter_text)
           spawns == filter_text = << >> \/ parsed.ok
           panics == filter_text # << >> /\ parsed = Panic
       IN  /\ CanSpawn
           /\ filter_bar' = [editing |-> FALSE, applied_filter |-> applied_filter_on_enter(text)]
           /\ limit' = submit_filter_limit
           /\ status_bar' = IF filter_text = << >> THEN [status_bar EXCEPT !.filter_active = FALSE]
                            ELSE IF parsed.ok THEN [status_bar EXCEPT !.filter_active = TRUE]
                            ELSE status_bar
           /\ tasks' = IF filter_text = << >>
                       THEN Append(tasks, RescanTask(None, data_view.visible_columns,
                                                     selected_snapshot_id, limit'))
                       ELSE IF parsed.ok
                       THEN Append(tasks, RescanTask(Some(parsed.val), data_view.visible_columns,
                                                     selected_snapshot_id, limit'))
                       ELSE IF panics THEN << >>
                       ELSE tasks
           /\ bus' = IF spawns THEN bus ELSE IF panics THEN << >> ELSE bus \o filter_error
           /\ budget' = IF panics THEN 0 ELSE budget - 1
           /\ ev' = FgStep(IF panics THEN "panic" ELSE "SubmitFilter", Some(text))
    /\ UNCHANGED << page_size, has_more, selected_snapshot_id, current_snapshot_id, active_tab,
                    data_view, snapshot_panel, manifest_panel, TABLE_HANDLE, lock >>
    /\ UNCHANGED << event_rx, event_reader, faults, store, initial_columns, column_selector >>

\* a selection that never recognises the head snapshot
select_snapshot_always(snapshot_id) == Some(snapshot_id)

\* App::handle_action(SelectSnapshot): the selection it leaves
select_snapshot_selection(snapshot_id) ==
    IF current_snapshot_id = Some(snapshot_id) THEN None ELSE Some(snapshot_id)

\* App::handle_action(SelectSnapshot): the limit it leaves
select_snapshot_limit == Some(page_size)

\* ManifestPanel::invalidate
invalidate(mp) == [manifests |-> << >>, files_by_manifest |-> << >>, loaded |-> FALSE]

\* Enter in the snapshot panel, then Action::SelectSnapshot(snapshot_id); the
\* mutex is taken for the if let and dropped after its body
SelectSnapshot(snapshot_id) ==
    /\ KeysFree
    /\ active_tab = "Snapshots"
    /\ snapshot_id \in Range(snapshot_panel.snapshots)
    /\ CanSpawn
    /\ lock = None
    /\ selected_snapshot_id' = select_snapshot_selection(snapshot_id)
    /\ limit' = select_snapshot_limit
    /\ snapshot_panel' = [snapshot_panel EXCEPT !.viewed_snapshot_id = selected_snapshot_id']
    /\ status_bar' = [status_bar EXCEPT !.selected_snapshot_id = selected_snapshot_id',
                                        !.current_snapshot_id = current_snapshot_id]
    /\ manifest_panel' = invalidate(manifest_panel)
    /\ tasks' = (IF active_tab = "Files"
                 THEN Append(tasks, ManifestTask(selected_snapshot_id'))
                 ELSE tasks)
                \o << RescanTask(applied_predicate, << >>, selected_snapshot_id', limit') >>
                \o (IF TABLE_HANDLE = None THEN << >>
                    ELSE << CountTask(TABLE_HANDLE[1], selected_snapshot_id') >>)
    /\ budget' = budget - 1
    /\ ev' = FgStep("SelectSnapshot", Some(snapshot_id))
    /\ UNCHANGED << page_size, has_more, current_snapshot_id, active_tab, filter_bar,
                    data_view, TABLE_HANDLE, lock, bus >>
    /\ UNCHANGED << event_rx, event_reader, faults, store, initial_columns, column_selector >>

\* App::handle_action(IncreaseLimit): the limit of an accepted request
increase_limit == Some(unwrap_or(limit, 0) + page_size)

\* a handler without the has_more check
may_increase_always == TRUE

\* App::handle_action(IncreaseLimit): if !self.has_more { return }
may_increase == has_more

\* 'm', then Action::IncreaseLimit
IncreaseLimit ==
    /\ KeysFree
    /\ CanSpawn
    /\ IF ~may_increase
       THEN UNCHANGED << limit, tasks >>
       ELSE /\ limit' = increase_limit
            /\ tasks' = Append(tasks, RescanTask(applied_predicate, data_view.visible_columns,
                                                 selected_snapshot_id, limit'))
    /\ budget' = budget - 1
    /\ ev' = FgStep("IncreaseLimit", None)
    /\ UNCHANGED << page_size, has_more, selected_snapshot_id, current_snapshot_id, active_tab,
                    panel_vars, TABLE_HANDLE, lock, bus >>
    /\ UNCHANGED << event_rx, event_reader, faults, store, initial_columns, column_selector >>

\* 'r', then Action::Reload
Reload ==
    /\ KeysFree
    /\ CanSpawn
    /\ tasks' = Append(tasks, RescanTask(applied_predicate, data_view.visible_columns,
                                         selected_snapshot_id, limit))
    /\ budget' = budget - 1
    /\ ev' = FgStep("Reload", None)
    /\ UNCHANGED << app_vars, panel_vars, TABLE_HANDLE, lock, bus >>
    /\ UNCHANGED << event_rx, event_reader, faults, store, initial_columns, column_selector >>

\* ColumnSelector::enabled_columns
enabled_columns(cs) == SelectSeq(cs.columns, LAMBDA c : \E i \in DOMAIN cs.columns :
                                                           cs.columns[i] = c /\ cs.enabled[i])

\* the data view and the status bar after the enabled columns are applied
ApplyEnabled(cs) ==
    /\ data_view' = [data_view EXCEPT !.visible_columns = enabled_columns(cs)]
    /\ status_bar' = [status_bar EXCEPT !.visible_columns = Len(enabled_columns(cs))]

\* 'c' in the data view, then Action::ToggleColumnSelector
ToggleColumnSelector ==
    /\ KeysFree
    /\ active_tab = "Data"
    /\ IF column_selector.visible
       THEN /\ column_selector' = [column_selector EXCEPT !.visible = FALSE]
            /\ ApplyEnabled(column_selector')
       ELSE /\ column_selector' = [column_selector EXCEPT !.visible = TRUE]
            /\ UNCHANGED << data_view, status_bar >>
    /\ ev' = FgStep("ToggleColumnSelector", None)
    /\ UNCHANGED << app_vars, filter_bar, snapshot_panel, manifest_panel,
                    TABLE_HANDLE, lock, tasks, bus, budget >>
    /\ UNCHANGED << event_rx, event_reader, faults, store, initial_columns >>

\* Esc or 'c' in the column selector: the popup closes, no action follows
CloseColumnSelector ==
    /\ column_selector.visible
    /\ column_selector' = [column_selector EXCEPT !.visible = FALSE]
    /\ ev' = FgStep("CloseColumnSelector", None)
    /\ UNCHANGED << app_vars, panel_vars, TABLE_HANDLE, lock, tasks, bus, budget >>
    /\ UNCHANGED << event_rx, event_reader, faults, store, initial_columns >>

\* Space or Enter on row i of the column selector, then Action::ToggleColumn
ToggleColumn(i) ==
    /\ column_selector.visible
    /\ i \in DOMAIN column_selector.enabled
    /\ column_selector' = [column_selector EXCEPT !.enabled[i] = ~column_selector.enabled[i]]
    /\ ApplyEnabled(column_selector')
    /\ tasks' = tasks
    /\ ev' = FgStep("ToggleColumn", Some(i))
    /\ UNCHANGED << app_vars, filter_bar, snapshot_panel, manifest_panel,
                    TABLE_HANDLE, lock, bus, budget >>
    /\ UNCHANGED << event_rx, event_reader, faults, store, initial_columns >>

\* 'a' in the column selector, then Action::ToggleColumn(""): all off when all are
\* on, all on otherwise
ToggleAllColumns ==
    /\ column_selector.visible
    /\ LET all_enabled == \A i \in DOMAIN column_selector.enabled : column_selector.enabled[i]
       IN  column_selector' = [column_selector EXCEPT
                                  !.enabled = [i \in DOMAIN column_selector.enabled |-> ~all_enabled]]
    /\ ApplyEnabled(column_selector')
    /\ tasks' = tasks
    /\ ev' = FgStep("ToggleColumn", None)
    /\ UNCHANGED << app_vars, filter_bar, snapshot_panel, manifest_panel,
                    TABLE_HANDLE, lock, bus, budget >>
    /\ UNCHANGED << event_rx, event_reader, faults, store, initial_columns >>

\* 'q', then Action::Quit: handle_action returns Ok(true) and run_app returns; its
\* receivers are dropped, and the runtime that main leaves cancels the tasks
Quit ==
    /\ KeysFree
    /\ event_rx' = "dropped"
    /\ tasks' = << >>
    /\ bus' = << >>
    /\ lock' = None
    /\ budget' = 0
    /\ ev' = FgStep("Quit", None)
    /\ UNCHANGED << app_vars, panel_vars, TABLE_HANDLE, column_selector >>
    /\ UNCHANGED << event_reader, faults, store, initial_columns >>

\* spawn_event_reader once run_app has returned: a poll that times out changes
\* nothing and the loop goes on; when the terminal has an input event the
\* thread reads it, its send fails and it leaves the loop
EventAfterQuit ==
    /\ event_rx = "dropped" /\ event_reader = "polling"
    /\ event_reader' = "stopped"
    /\ ev' = Quiet
    /\ UNCHANGED << fg_vars, TABLE_HANDLE, lock, tasks, bus >>
    /\ UNCHANGED << event_rx, faults, store, initial_columns >>

\* ------------------------------------------------------------------------
\* Specification
\* ------------------------------------------------------------------------

Next ==
    \/ \E t \in DOMAIN tasks : InitialLoadStart(t)
    \/ \E t \in DOMAIN tasks : InitialLoadLoaded(t)
    \/ \E t \in DOMAIN tasks : InitialLoadScanned(t)
    \/ \E t \in DOMAIN tasks : InitialLoadLock(t)
    \/ \E t \in DOMAIN tasks : InitialLoadInstall(t)
    \/ \E t \in DOMAIN tasks : RescanStart(t)
    \/ \E t \in DOMAIN tasks : RescanLock(t)
    \/ \E t \in DOMAIN tasks : RescanHandle(t)
    \/ \E t \in DOMAIN tasks : RescanScanned(t)
    \/ \E t \in DOMAIN tasks : CountRows(t)
    \/ \E t \in DOMAIN tasks : LoadManifestsStart(t)
    \/ \E t \in DOMAIN tasks : LoadManifestsLock(t)
    \/ \E t \in DOMAIN tasks : LoadManifestsHandle(t)
    \/ \E t \in DOMAIN tasks : LoadManifestsList(t)
    \/ \E t \in DOMAIN tasks : LoadManifestsEntry(t)
    \/ HandleMessage
    \/ \E idx \in TabKeys : SwitchTab(idx)
    \/ FocusFilter
    \/ CancelFilter
    \/ \E text \in FilterTexts : SubmitFilter(text)
    \/ \E id \in Range(snapshot_panel.snapshots) : SelectSnapshot(id)
    \/ IncreaseLimit
    \/ Reload

Init == InitWith(MaxActions, MaxFaults)

Spec == Init /\ [][Next]_vars

\* a session that stays on the Data tab: a filter is applied and more rows are
\* asked for, in quick succession
BurstTexts == { << "a", " ", ">", " ", "1" >> }

InitBurst == InitWith(MaxBurst, MaxFaults)

NextBurst ==
    \/ \E t \in DOMAIN tasks : InitialLoadStart(t)
    \/ \E t \in DOMAIN tasks : InitialLoadLoaded(t)
    \/ \E t \in DOMAIN tasks : InitialLoadScanned(t)
    \/ \E t \in DOMAIN tasks : InitialLoadLock(t)
    \/ \E t \in DOMAIN tasks : InitialLoadInstall(t)
    \/ \E t \in DOMAIN tasks : RescanStart(t)
    \/ \E t \in DOMAIN tasks : RescanLock(t)
    \/ \E t \in DOMAIN tasks : RescanHandle(t)
    \/ \E t \in DOMAIN tasks : RescanScanned(t)
    \/ \E t \in DOMAIN tasks : CountRows(t)
    \/ HandleMessage
    \/ FocusFilter
    \/ \E text \in BurstTexts : SubmitFilter(text)
    \/ IncreaseLimit

SpecBurst == InitBurst /\ [][NextBurst]_vars

\* a session that moves between the Snapshots and the Files tab and selects snapshots
SnapKeys == { 2, 4 }

InitSnap == InitWith(MaxSnap, 0)

NextSnap ==
    \/ \E t \in DOMAIN tasks : InitialLoadStart(t)
    \/ \E t \in DOMAIN tasks : InitialLoadLoaded(t)
    \/ \E t \in DOMAIN tasks : InitialLoadScanned(t)
    \/ \E t \in DOMAIN tasks : InitialLoadLock(t)
    \/ \E t \in DOMAIN tasks : InitialLoadInstall(t)
    \/ \E t \in DOMAIN tasks : RescanStart(t)
    \/ \E t \in DOMAIN tasks : RescanLock(t)
    \/ \E t \in DOMAIN tasks : RescanHandle(t)
    \/ \E t \in DOMAIN tasks : RescanScanned(t)
    \/ \E t \in DOMAIN tasks : CountRows(t)
    \/ \E t \in DOMAIN tasks : LoadManifestsStart(t)
    \/ \E t \in DOMAIN tasks : LoadManifestsLock(t)
    \/ \E t \in DOMAIN tasks : LoadManifestsHandle(t)
    \/ \E t \in DOMAIN tasks : LoadManifestsList(t)
    \/ \E t \in DOMAIN tasks : LoadManifestsEntry(t)
    \/ HandleMessage
    \/ \E idx \in SnapKeys : SwitchTab(idx)
    \/ \E id \in Range(snapshot_panel.snapshots) : SelectSnapshot(id)

SpecSnap == InitSnap /\ [][NextSnap]_vars

\* a session that stays on the Data tab and submits one filter text after another
InitFilter == InitWith(MaxFilter, 0)

NextFilter ==
    \/ \E t \in DOMAIN tasks : InitialLoadStart(t)
    \/ \E t \in DOMAIN tasks : InitialLoadLoaded(t)
    \/ \E t \in DOMAIN tasks : InitialLoadScanned(t)
    \/ \E t \in DOMAIN tasks : InitialLoadLock(t)
    \/ \E t \in DOMAIN tasks : InitialLoadInstall(t)
    \/ \E t \in DOMAIN tasks : RescanStart(t)
    \/ \E t \in DOMAIN tasks : RescanLock(t)
    \/ \E t \in DOMAIN tasks : RescanHandle(t)
    \/ \E t \in DOMAIN tasks : RescanScanned(t)
    \/ \E t \in DOMAIN tasks : CountRows(t)
    \/ HandleMessage
    \/ FocusFilter
    \/ CancelFilter
    \/ \E text \in FilterTexts : SubmitFilter(text)

SpecFilter == InitFilter /\ [][NextFilter]_vars

\* nothing is running and nothing is waiting to be merged
Idle == bus = << >> /\ \A t \in DOMAIN tasks : tasks[t].pc = "done"

\* a manifest load has been asked for
FilesVisited == \E t \in DOMAIN tasks : tasks[t].kind = "load_manifests"

\* a session in which the user selects a snapshot once the view has settled, opens
\* the Files tab once the selection has settled, and from then on moves in and out
\* of the Files tab at any pace
InitFiles == InitWith(MaxFiles, 0)

NextFiles ==
    \/ \E t \in DOMAIN tasks : InitialLoadStart(t)
    \/ \E t \in DOMAIN tasks : InitialLoadLoaded(t)
    \/ \E t \in DOMAIN tasks : InitialLoadScanned(t)
    \/ \E t \in DOMAIN tasks : InitialLoadLock(t)
    \/ \E t \in DOMAIN tasks : InitialLoadInstall(t)
    \/ \E t \in DOMAIN tasks : RescanStart(t)
    \/ \E t \in DOMAIN tasks : RescanLock(t)
    \/ \E t \in DOMAIN tasks : RescanHandle(t)
    \/ \E t \in DOMAIN tasks : RescanScanned(t)
    \/ \E t \in DOMAIN tasks : CountRows(t)
    \/ \E t \in DOMAIN tasks : LoadManifestsStart(t)
    \/ \E t \in DOMAIN tasks : LoadManifestsLock(t)
    \/ \E t \in DOMAIN tasks : LoadManifestsHandle(t)
    \/ \E t \in DOMAIN tasks : LoadManifestsList(t)
    \/ \E t \in DOMAIN tasks : LoadManifestsEntry(t)
    \/ HandleMessage
    \/ SwitchTab(4)
    \/ budget < MaxFiles /\ (Idle \/ FilesVisited) /\ SwitchTab(2)
    \/ Idle /\ active_tab = "Snapshots" /\ \E id \in Range(snapshot_panel.snapshots) : SelectSnapshot(id)

SpecFiles == InitFiles /\ [][NextFiles]_vars

\* a step of background task t
TaskStep(t) ==
    \/ InitialLoadStart(t)
    \/ InitialLoadLoaded(t)
    \/ InitialLoadScanned(t)
    \/ InitialLoadLock(t)
    \/ InitialLoadInstall(t)
    \/ RescanStart(t)
    \/ RescanLock(t)
    \/ RescanHandle(t)
    \/ RescanScanned(t)
    \/ CountRows(t)
    \/ LoadManifestsStart(t)
    \/ LoadManifestsLock(t)
    \/ LoadManifestsHandle(t)
    \/ LoadManifestsList(t)
    \/ LoadManifestsEntry(t)

\* a session in which the user reloads the data or opens the Files tab, run by a
\* scheduler that lets every ready task proceed and a foreground loop that merges
\* every message that waits on the bus
InitLoad == InitWith(MaxLoad, MaxFaults)

NextLoad ==
    \/ \E t \in DOMAIN tasks : TaskStep(t)
    \/ HandleMessage
    \/ \E idx \in TabKeys : SwitchTab(idx)
    \/ Reload

SpecLoad ==
    /\ InitLoad /\ [][NextLoad]_vars
    /\ WF_vars(HandleMessage)
    /\ WF_vars(\E t \in DOMAIN tasks : TaskStep(t))

\* the same session on a table that may have no snapshot yet
InitEmpty == InitOn(MaxLoad, MaxFaults, { EmptyTable, SampleTable })

SpecEmpty == InitEmpty /\ [][NextLoad]_vars

\* the foreground has merged the initial load's DataReady, or its closing
\* LoadingFinished: the task has posted it and it waits on the bus no more
InitialMerged ==
    \/ /\ \E n \in DOMAIN tasks[1].log : tasks[1].log[n] = "DataReady"
       /\ \A n \in DOMAIN bus : bus[n].type # "DataReady"
    \/ /\ \E n \in DOMAIN tasks[1].log : tasks[1].log[n] = "LoadingFinished"
       /\ \A n \in DOMAIN bus : bus[n].type # "LoadingFinished"

\* a session in which the user waits for the initial load's data, or for its end,
\* to be displayed before reloading or opening the Files tab
NextMerged ==
    \/ \E t \in DOMAIN tasks : TaskStep(t)
    \/ HandleMessage
    \/ InitialMerged /\ \E idx \in TabKeys : SwitchTab(idx)
    \/ InitialMerged /\ Reload

SpecMerged == InitLoad /\ [][NextMerged]_vars

\* a session on the Data tab in which columns are hidden and shown and the data
\* is reloaded, started without a column preference or with --columns a
InitColumns == InitApp(MaxColumns, 0, Tables, { None, Some(<< "a" >>) })

NextColumns ==
    \/ \E t \in DOMAIN tasks : InitialLoadStart(t)
    \/ \E t \in DOMAIN tasks : InitialLoadLoaded(t)
    \/ \E t \in DOMAIN tasks : InitialLoadScanned(t)
    \/ \E t \in DOMAIN tasks : InitialLoadLock(t)
    \/ \E t \in DOMAIN tasks : InitialLoadInstall(t)
    \/ \E t \in DOMAIN tasks : RescanStart(t)
    \/ \E t \in DOMAIN tasks : RescanLock(t)
    \/ \E t \in DOMAIN tasks : RescanHandle(t)
    \/ \E t \in DOMAIN tasks : RescanScanned(t)
    \/ \E t \in DOMAIN tasks : CountRows(t)
    \/ HandleMessage
    \/ ToggleColumnSelector
    \/ CloseColumnSelector
    \/ \E i \in DOMAIN column_selector.enabled : ToggleColumn(i)
    \/ ToggleAllColumns
    \/ Reload

SpecColumns == InitColumns /\ [][NextColumns]_vars

\* a session on the Data tab in which the user submits filter texts, each once the
\* view has settled, and as the last action reloads or asks for more rows
InitApplied == InitWith(MaxApplied, 0)

NextApplied ==
    \/ \E t \in DOMAIN tasks : InitialLoadStart(t)
    \/ \E t \in DOMAIN tasks : InitialLoadLoaded(t)
    \/ \E t \in DOMAIN tasks : InitialLoadScanned(t)
    \/ \E t \in DOMAIN tasks : InitialLoadLock(t)
    \/ \E t \in DOMAIN tasks : InitialLoadInstall(t)
    \/ \E t \in DOMAIN tasks : RescanStart(t)
    \/ \E t \in DOMAIN tasks : RescanLock(t)
    \/ \E t \in DOMAIN tasks : RescanHandle(t)
    \/ \E t \in DOMAIN tasks : RescanScanned(t)
    \/ \E t \in DOMAIN tasks : CountRows(t)
    \/ HandleMessage
    \/ Idle /\ budget > 1 /\ FocusFilter
    \/ \E text \in FilterTexts : SubmitFilter(text)
    \/ Idle /\ budget = 1 /\ IncreaseLimit
    \/ Idle /\ budget = 1 /\ Reload

SpecApplied == InitApplied /\ [][NextApplied]_vars

\* a session in which the user opens the Files tab once the table is displayed,
\* selects a snapshot in the Snapshots tab and returns to the Files tab, without
\* waiting for any of the loads to end
InitStale == InitWith(MaxStale, 0)

NextStale ==
    \/ \E t \in DOMAIN tasks : TaskStep(t)
    \/ HandleMessage
    \/ SwitchTab(4)
    \/ Idle /\ budget = MaxStale /\ SwitchTab(2)
    \/ budget = 1 /\ SwitchTab(2)
    \/ budget = 2 /\ \E id \in Range(snapshot_panel.snapshots) : SelectSnapshot(id)

SpecStale == InitStale /\ [][NextStale]_vars

\* the page sizes a paging session is started with: --limit 0, 1, 2, 3, 5 and 6 on
\* a table whose head snapshot has 5 rows
PagingArgs == { [limit |-> Some(n), no_limit |-> FALSE] : n \in { 0, 1, 2, 3, 5, 6 } }

\* a session on the Data tab in which the user asks for more rows again and again,
\* each time once the rows asked for before are displayed, run by a scheduler
\* that lets every ready task proceed and a foreground loop that merges every
\* message that waits on the bus
InitPaging == InitCli(MaxPaging, 0, Tables, { None }, PagingArgs)

NextPaging ==
    \/ \E t \in DOMAIN tasks : InitialLoadStart(t)
    \/ \E t \in DOMAIN tasks : InitialLoadLoaded(t)
    \/ \E t \in DOMAIN tasks : InitialLoadScanned(t)
    \/ \E t \in DOMAIN tasks : InitialLoadLock(t)
    \/ \E t \in DOMAIN tasks : InitialLoadInstall(t)
    \/ \E t \in DOMAIN tasks : RescanStart(t)
    \/ \E t \in DOMAIN tasks : RescanLock(t)
    \/ \E t \in DOMAIN tasks : RescanHandle(t)
    \/ \E t \in DOMAIN tasks : RescanScanned(t)
    \/ \E t \in DOMAIN tasks : CountRows(t)
    \/ HandleMessage
    \/ Idle /\ IncreaseLimit

SpecPaging ==
    /\ InitPaging /\ [][NextPaging]_vars
    /\ WF_vars(HandleMessage)
    /\ WF_vars(\E t \in DOMAIN tasks : TaskStep(t))
    /\ WF_vars(Idle /\ IncreaseLimit)

\* a session in which the user reloads the data or opens the Files tab and at
\* some point quits; the scheduler lets every ready task proceed and the
\* foreground merges every message that waits; whether the terminal delivers
\* another input event after the Quit is left open
InitQuit == InitWith(MaxQuit, 0)

NextQuit ==
    \/ \E t \in DOMAIN tasks : TaskStep(t)
    \/ HandleMessage
    \/ \E idx \in TabKeys : SwitchTab(idx)
    \/ Reload
    \/ Quit
    \/ EventAfterQuit

SpecQuit ==
    /\ InitQuit /\ [][NextQuit]_vars
    /\ WF_vars(HandleMessage)
    /\ WF_vars(\E t \in DOMAIN tasks : TaskStep(t))

\* the record batch of data file i with n rows
Batch(i, n) ==
    [snapshot |-> 1, filter |-> None, file |-> i, num_rows |-> n, columns |-> << "a", "b" >>]

\* up to MaxBatches batches of up to MaxBatchRows rows each, empty ones included
BatchLists ==
    UNION { { [i \in 1..len |-> Batch(i, sizes[i])] : sizes \in [1..len -> 0..MaxBatchRows] } :
              len \in 0..MaxBatches }

\* a call of limit_batches(batches, lim) that has not run yet
Call(batches, lim) ==
    [kind |-> "limit_batches", pc |-> "call", request |-> [batches |-> batches, limit |-> lim],
     handle |-> None, infos |-> << >>, groups |-> << >>, log |-> << >>, result |-> << >>]

\* limit_batches called on its own, as the tests of scan.rs call it, with any of
\* the batch lists and any limit up to MaxLimitRows
InitLimit ==
    /\ InitFields(0, 0, Tables, { None }, CliArgs)
    /\ \E batches \in BatchLists, lim \in 0..MaxLimitRows : tasks = << Call(batches, lim) >>

\* the call runs and returns
LimitBatchesCall(t) ==
    /\ tasks[t].kind = "limit_batches" /\ tasks[t].pc = "call"
    /\ tasks' = [tasks EXCEPT ![t].pc = "done",
                              ![t].result = limit_batches(tasks[t].request.batches,
                                                          tasks[t].request.limit)]
    /\ ev' = Quiet
    /\ UNCHANGED << fg_vars, TABLE_HANDLE, lock, bus >>
    /\ UNCHANGED << event_rx, event_reader, faults, store, initial_columns >>

NextLimit == \E t \in DOMAIN tasks : LimitBatchesCall(t)

SpecLimit == InitLimit /\ [][NextLimit]_vars

\* ------------------------------------------------------------------------
\* Inputs of the filter compiler
\* ------------------------------------------------------------------------

FilterColumns == { << "a" >>, << "i", "d" >> }

CompareOps == { << "=" >>, << "!", "=" >>, << ">" >>, << "<" >>, << ">", "=" >>, << "<", "=" >> }

\* valid literals, each with the Datum it denotes
Literals ==
    << [text |-> << "1" >>,
       datum |-> [t |-> "Long", long |-> 1]],
      [text |-> << "-", "2" >>,
       datum |-> [t |-> "Long", long |-> 0 - 2]],
      [text |-> << "1", ".", "5" >>,
       datum |-> [t |-> "Double", double |-> << "1", ".", "5" >>]],
      [text |-> << "t", "r", "u", "e" >>,
       datum |-> [t |-> "Bool", bool |-> TRUE]],
      [text |-> << "F", "A", "L", "S", "E" >>,
       datum |-> [t |-> "Bool", bool |-> FALSE]],
      [text |-> << "a", "b", "c" >>,
       datum |-> [t |-> "String", string |-> << "a", "b", "c" >>]],
      [text |-> << "'", "x", "'" >>,
       datum |-> [t |-> "String", string |-> << "x" >>]],
      [text |-> << "'", "1", "'" >>,
       datum |-> [t |-> "String", string |-> << "1" >>]],
      [text |-> << "'", "x", ">", "y", "'" >>,
       datum |-> [t |-> "String", string |-> << "x", ">", "y" >>]],
      [text |-> << "'", "a", "=", "b", "'" >>,
       datum |-> [t |-> "String", string |-> << "a", "=", "b" >>]],
      [text |-> << "'", "A", " ", "A", "N", "D", " ", "B", "'" >>,
       datum |-> [t |-> "String", string |-> << "A", " ", "A", "N", "D", " ", "B" >>]],
      [text |-> << "'", "a", " ", "o", "r", " ", "b", "'" >>,
       datum |-> [t |-> "String", string |-> << "a", " ", "o", "r", " ", "b" >>]] >>

\* "<col> <op> <value>"
Comparison(col, op, value) == col \o << " " >> \o op \o << " " >> \o value

ComparisonTexts ==
    { Comparison(col, op, Literals[k].text) :
        col \in FilterColumns, op \in CompareOps, k \in DOMAIN Literals }

\* three clauses and what each compiles to
Clauses ==
    << [text |-> << "a", " ", "=", " ", "1" >>,
        pred |-> [op |-> "Compare", col |-> << "a" >>, cmp |-> << "=" >>,
                  datum |-> [t |-> "Long", long |-> 1]]],
       [text |-> << "b", " ", "<", " ", "2" >>,
        pred |-> [op |-> "Compare", col |-> << "b" >>, cmp |-> << "<" >>,
                  datum |-> [t |-> "Long", long |-> 2]]],
       [text |-> << "c", " ", "=", " ", "'", "x", " ", "y", "'" >>,
        pred |-> [op |-> "Compare", col |-> << "c" >>, cmp |-> << "=" >>,
                  datum |-> [t |-> "String", string |-> << "x", " ", "y" >>]]] >>

\* the combinator keywords as typed, each with the node it stands for
Connectives ==
    << [text |-> << " ", "A", "N", "D", " " >>, op |-> "And"], [text |-> << " ", "a", "n", "d", " " >>, op |-> "And"],
      [text |-> << " ", "O", "R", " " >>, op |-> "Or"], [text |-> << " ", "O", "r", " " >>, op |-> "Or"] >>

\* clause 1, k, clause 2 and clause 1, k, clause 2, m, clause 3
Chain2(k) == Clauses[1].text \o Connectives[k].text \o Clauses[2].text

Chain3(k, m) == Chain2(k) \o Connectives[m].text \o Clauses[3].text

ChainTexts ==
    { Chain2(k) : k \in DOMAIN Connectives } \cup
    { Chain3(k, m) : k \in DOMAIN Connectives, m \in DOMAIN Connectives }

\* empty, blank and malformed texts, IN lists, null tests, and texts with
\* characters whose upper case has another length in bytes
OtherTexts ==
    { <<  >>,
      << " ", " " >>,
      << "z", "z" >>,
      << "a", " ", "I", "N", " ", "1" >>,
      << "a", " ", "I", "N", " ", "(", "'", "x", "'", ",", " ", "'", "y", "'", ")" >>,
      << "a", " ", "I", "N", " ", "(", "1", ",", " ", "2", ".", "5", ",", " ", "t", "r", "u", "e", ",", " ", "'", "x", "'", ")" >>,
      << "a", " ", "I", "N", " ", "(", "'", "1", "'", ",", " ", "'", "t", "r", "u", "e", "'", ")" >>,
      << "s", "t", "a", "t", "u", "s", " ", "I", "N", " ", "(", "'", "x", "'", ",", " ", "'", "y", "'", ")" >>,
      << "a", " ", "I", "S", " ", "N", "U", "L", "L" >>,
      << "a", " ", "i", "s", " ", "n", "o", "t", " ", "n", "u", "l", "l" >>,
      << "a", " ", "=", " ", "1", " ", "A", "N", "D" >>,
      << "n", "a", "m", "e", " ", "=", " ", "'", "A", " ", "A", "N", "D", " ", "B", "'" >>,
      << "a", " ", "=", " ", "'", "x", "'", " ", "A", "N", "D", " ", "b", " ", "=", " ", "'", "y", " ", "o", "r", " ", "z", "'" >>,
      << "a", "<", "=", "1" >>,
      << "a", " ", "=", ">", " ", "1" >>,
      << "a", " ", "=", " ", "'", "b", " ", "O", "R", " ", "c" >>,
      << "U+0131", "U+0131", "a" >>,
      << "U+0131", " ", "=", " ", "1" >>,
      << "U+0131", "U+0131", " ", "=", " ", "'", " ", "A", "N", "D", " ", "b", "U+0149", "U+0149", "'" >>,
      << "U+0149", " ", "=", " ", "1", " ", "O", "R", " ", "b", " ", "=", " ", "2" >> }

\* "a IN (<value>, 'x')"
InList(value) == << "a", " ", "I", "N", " ", "(" >> \o value \o << ",", " ", "'", "x", "'", ")" >>

InTexts == { InList(Literals[k].text) : k \in DOMAIN Literals }

CompileTexts == ComparisonTexts \cup ChainTexts \cup InTexts \cup OtherTexts

\* a session in which, once the initial load is merged, one text is typed into the
\* filter bar and submitted
InitCompile == InitWith(MaxCompile, 0)

NextCompile ==
    \/ \E t \in DOMAIN tasks : InitialLoadStart(t)
    \/ \E t \in DOMAIN tasks : InitialLoadLoaded(t)
    \/ \E t \in DOMAIN tasks : InitialLoadScanned(t)
    \/ \E t \in DOMAIN tasks : InitialLoadLock(t)
    \/ \E t \in DOMAIN tasks : InitialLoadInstall(t)
    \/ \E t \in DOMAIN tasks : RescanStart(t)
    \/ \E t \in DOMAIN tasks : RescanLock(t)
    \/ \E t \in DOMAIN tasks : RescanHandle(t)
    \/ \E t \in DOMAIN tasks : RescanScanned(t)
    \/ \E t \in DOMAIN tasks : CountRows(t)
    \/ HandleMessage
    \/ Idle /\ FocusFilter
    \/ \E text \in CompileTexts : SubmitFilter(text)

SpecCompile == InitCompile /\ [][NextCompile]_vars


\* ------------------------------------------------------------------------
\* Properties
\* ------------------------------------------------------------------------

AppMessageTypes ==
    { "DataReady", "MetadataReady", "ManifestsReady", "DataFileStatsReady",
      "TotalRowCount", "LoadingStarted", "LoadingFinished", "Error" }

IsMessage(e) == e \in AppMessageTypes

\* the messages task t has posted, oldest first
Posted(t) == SelectSeq(tasks[t].log, IsMessage)

Last(s) == s[Len(s)]

Finished(t) == tasks[t].pc = "done"

EndsWithLoadingFinished(t) == Posted(t) # << >> /\ Last(Posted(t)) = "LoadingFinished"

\* C1 as stated: every finished background task of the four kinds (initial load,
\* rescan, row count, manifest load) has LoadingFinished as its final message.
C1_AllKindsFinish ==
    \A t \in DOMAIN tasks : Finished(t) => EndsWithLoadingFinished(t)

\* C1 amended: a finished initial load, rescan or manifest load has LoadingFinished
\* as its final message on every path, failures included; a row count posts
\* nothing but at most one TotalRowCount, so neither LoadingStarted nor
\* LoadingFinished.
C1_LoadingFinishedLast ==
    \A t \in DOMAIN tasks :
        Finished(t) =>
            IF tasks[t].kind = "count_rows"
            THEN Posted(t) \in { << >>, << "TotalRowCount" >> }
            ELSE EndsWithLoadingFinished(t)

\* a row count has posted its total and ended, next to a finished initial load
C1_Witness ==
    \E t, u \in DOMAIN tasks :
        /\ tasks[t].kind = "count_rows" /\ Finished(t) /\ Posted(t) = << "TotalRowCount" >>
        /\ tasks[u].kind = "initial_load" /\ Finished(u) /\ EndsWithLoadingFinished(u)

\* C2: a rescan that found no handle in the slot has posted LoadingStarted, Error
\* and LoadingFinished, in that order and nothing else, and has attempted no scan.
C2_RescanWithoutHandle ==
    \A t \in DOMAIN tasks :
        (tasks[t].kind = "rescan" /\ tasks[t].handle = None) =>
            /\ tasks[t].pc # "scan"
            /\ Finished(t) => tasks[t].log = << "LoadingStarted", "Error", "LoadingFinished" >>

\* a rescan has run to its end before the initial load installed the handle
C2_Witness ==
    \E t \in DOMAIN tasks :
        /\ tasks[t].kind = "rescan" /\ Finished(t) /\ tasks[t].handle = None
        /\ TABLE_HANDLE = None

\* C3: the slot changes only from empty to the handle of the initial-load task,
\* in that task's install step; every other step of every task and of the
\* foreground leaves it as it is, so a held handle is held for ever.
C3_SlotWrittenOnce ==
    [][ TABLE_HANDLE' # TABLE_HANDLE =>
            /\ TABLE_HANDLE = None
            /\ \E t \in DOMAIN tasks :
                  /\ tasks[t].kind = "initial_load" /\ tasks[t].pc = "locked"
                  /\ tasks'[t].pc = "done"
                  /\ TABLE_HANDLE' = tasks[t].handle ]_vars

\* the handle is installed and a rescan has read it and finished its scan
C3_Witness ==
    /\ TABLE_HANDLE # None
    /\ \E t \in DOMAIN tasks :
          tasks[t].kind = "rescan" /\ Finished(t) /\ tasks[t].handle = TABLE_HANDLE

\* C4: the mutex is held only by a task that is between taking it and its clone
\* or install, a step that never waits; no task suspended in table-store I/O
\* holds it, and the foreground holds it across no step.
C4_NoIoUnderLock ==
    /\ \A t \in DOMAIN tasks : tasks[t].pc \in IOPcs => lock # Holder(t)
    /\ lock # None => \E t \in DOMAIN tasks : lock = Holder(t) /\ tasks[t].pc = "locked"

\* a task holds the mutex while another one waits for it
C4_Witness ==
    \E t, u \in DOMAIN tasks :
        /\ lock = Holder(t) /\ tasks[t].pc = "locked"
        /\ u # t /\ tasks[u].pc \in { "handle", "install" }

\* the effects of an initial load whose table resolved and whose scan succeeded
InitialLoadEffects(t) ==
    /\ tasks[t].kind = "initial_load" /\ Finished(t)
    /\ \E i \in DOMAIN tasks[t].log : tasks[t].log[i] = "DataReady"

MergesDataReady == bus # << >> /\ bus' = Tail(bus) /\ Head(bus).type = "DataReady"

\* what the scan of a finished rescan returned
ScanOf(t) == execute_scan(tasks[t].handle[1], tasks[t].request)

DeliveredData(t) ==
    /\ tasks[t].kind = "rescan" /\ Finished(t)
    /\ \E i \in DOMAIN tasks[t].log : tasks[t].log[i] = "DataReady"

\* C6: the foreground never discards a result: whichever task posted it, a merged
\* DataReady replaces the displayed rows, hasMore and limit, so the result merged
\* last is the one displayed, whatever the order of the requests.
C6_NeverDiscards ==
    [][ MergesDataReady =>
            /\ data_view'.batches = Head(bus).batches
            /\ has_more' = Head(bus).has_more
            /\ limit' = Some(Head(bus).total_rows) ]_vars

\* rescans R1 then R2 were requested, both delivered their rows, every message is
\* merged and every task has ended, and the display holds R1's rows, hasMore and
\* limit while R2's differ: the bus is first-in first-out, so R2's DataReady was
\* merged before R1's
C6_Witness ==
    /\ bus = << >>
    /\ \A t \in DOMAIN tasks : Finished(t)
    /\ \E r1, r2 \in DOMAIN tasks :
          /\ r1 < r2 /\ DeliveredData(r1) /\ DeliveredData(r2)
          /\ data_view.batches = ScanOf(r1).batches
          /\ has_more = ScanOf(r1).has_more
          /\ limit = Some(total_row_count(ScanOf(r1).batches))
          /\ ScanOf(r2).batches # data_view.batches
          /\ ScanOf(r2).has_more # has_more
          /\ limit # Some(total_row_count(ScanOf(r2).batches))

\* C7 as stated: a step changes limit only by an accepted IncreaseLimit, which
\* adds pageSize, or by a filter or snapshot change, which sets it to pageSize.
C7_OnlyUserActions ==
    [][ limit' # limit =>
            \/ ev'.op = "IncreaseLimit" /\ limit' = Some(unwrap_or(limit, 0) + page_size)
            \/ ev'.op \in { "SubmitFilter", "SelectSnapshot" } /\ limit' = Some(page_size) ]_vars

\* C7 amended: a step changes limit only by an accepted IncreaseLimit, which adds
\* pageSize, by a submitted filter (compiling or not) or a snapshot selection,
\* which set it to pageSize, or by merging a DataReady, which sets it to the
\* number of rows the message carries.
C7_LimitSteps ==
    [][ limit' # limit =>
            \/ ev'.op = "IncreaseLimit" /\ limit' = Some(unwrap_or(limit, 0) + page_size)
            \/ ev'.op \in { "SubmitFilter", "SelectSnapshot" } /\ limit' = Some(page_size)
            \/ MergesDataReady /\ limit' = Some(Head(bus).total_rows) ]_vars

\* before any user action the limit is already neither the one the program
\* started with nor pageSize: the merge of the initial rows has set it
C7_Witness ==
    /\ budget = MaxActions
    /\ limit = Some(data_view.total_rows)
    /\ limit # Some(page_size)
    /\ data_view.batches # << >>

\* C8: right after an IncreaseLimit issued with hasMore false, limit, hasMore, the
\* snapshot selection and the applied filter are what they were, no task has
\* been spawned and no message posted.
C8_IncreaseLimitNoop ==
    (ev.op = "IncreaseLimit" /\ ~ev.pre.has_more) =>
        /\ limit = ev.pre.limit
        /\ has_more = ev.pre.has_more
        /\ selected_snapshot_id = ev.pre.selected_snapshot_id
        /\ filter_bar.applied_filter = ev.pre.applied_filter
        /\ data_view.batches = ev.pre.rows
        /\ Len(tasks) = ev.pre.ntasks
        /\ Len(bus) = ev.pre.nbus

\* IncreaseLimit was issued with hasMore false once rows were on display
C8_Witness ==
    /\ ev.op = "IncreaseLimit" /\ ~ev.pre.has_more
    /\ data_view.batches # << >>

\* C9: right after an IncreaseLimit issued with hasMore true, limit is the former
\* limit plus pageSize and exactly one task has been spawned: a rescan that has
\* not started, whose request carries the new limit, the predicate compiled from
\* the applied filter and the selected snapshot; no message has been posted.
C9_IncreaseLimitRescan ==
    (ev.op = "IncreaseLimit" /\ ev.pre.has_more) =>
        /\ ev.pre.limit # None
        /\ limit = Some(ev.pre.limit[1] + page_size)
        /\ Len(tasks) = ev.pre.ntasks + 1
        /\ Len(bus) = ev.pre.nbus
        /\ LET r == tasks[Len(tasks)]
           IN  /\ r.kind = "rescan" /\ r.pc = "start"
               /\ r.request.limit = limit
               /\ r.request.filter = IF filter_bar.applied_filter = None THEN None
                                     ELSE parse_ok(filter_bar.applied_filter[1])
               /\ r.request.snapshot_id = selected_snapshot_id

\* IncreaseLimit was issued with hasMore true while a compiled filter was applied
C9_Witness ==
    /\ ev.op = "IncreaseLimit" /\ ev.pre.has_more
    /\ filter_bar.applied_filter # None
    /\ tasks[Len(tasks)].request.filter # None

\* C10: right after SelectSnapshot(id) the selection is none when id is the head
\* snapshot's id and id otherwise, and limit is pageSize.
C10_SelectSnapshot ==
    ev.op = "SelectSnapshot" =>
        /\ selected_snapshot_id = IF ev.arg = current_snapshot_id THEN None ELSE ev.arg
        /\ limit = Some(page_size)

\* the head snapshot was selected while limit was not pageSize
C10_Witness ==
    /\ ev.op = "SelectSnapshot" /\ ev.arg = current_snapshot_id
    /\ ev.pre.limit # Some(page_size)
    /\ selected_snapshot_id = None


\* C11: the selection is none or a snapshot id other than the head id, the head
\* id being the one the foreground recorded and the one of the loaded table.
C11_SelectionNeverHead ==
    selected_snapshot_id # None =>
        /\ selected_snapshot_id # current_snapshot_id
        /\ \A t \in DOMAIN tasks :
              tasks[t].handle # None =>
                  selected_snapshot_id # tasks[t].handle[1].table.current_snapshot_id

\* an older snapshot was being viewed and the head has just been selected again
C11_Witness ==
    /\ ev.op = "SelectSnapshot" /\ ev.arg = current_snapshot_id
    /\ ev.pre.selected_snapshot_id # None
    /\ selected_snapshot_id = None

\* C12: a snapshot selection spawns exactly one rescan, scoped to the new selection
\* with limit = page_size and the applied filter's predicate, and exactly one row
\* count scoped to the same snapshot.
C12_RescanAndCount ==
    ev.op = "SelectSnapshot" =>
        /\ Len(tasks) = ev.pre.ntasks + 2
        /\ LET rescan == tasks[ev.pre.ntasks + 1]
               count  == tasks[ev.pre.ntasks + 2]
           IN  /\ rescan.kind = "rescan"
               /\ rescan.request.snapshot_id = selected_snapshot_id
               /\ rescan.request.limit = Some(page_size)
               /\ rescan.request.filter = applied_predicate
               /\ count.kind = "count_rows"
               /\ count.request.snapshot_id = selected_snapshot_id

\* a snapshot was selected while the initial load had not yet installed the handle
C12_Witness ==
    /\ ev.op = "SelectSnapshot"
    /\ TABLE_HANDLE = None
    /\ Len(tasks) = ev.pre.ntasks + 1
    /\ tasks[Len(tasks)].kind = "rescan"


\* the text of the last submission is empty / compiles
SubmittedEmpty == ev.op = "SubmitFilter" /\ trim(ev.arg[1]) = << >>

SubmittedCompiling == ev.op = "SubmitFilter" /\ ~SubmittedEmpty /\ parse_filter(trim(ev.arg[1])).ok

\* the one task the last user action spawned
Spawned == tasks[ev.pre.ntasks + 1]

\* what C13 says of the rescan: one new task, a rescan for the current snapshot
\* with limit = page_size, unfiltered for empty text, with the compiled predicate
\* otherwise; nothing is posted
SubmitRescans ==
    /\ limit = Some(page_size)
    /\ Len(tasks) = ev.pre.ntasks + 1
    /\ Len(bus) = ev.pre.nbus
    /\ Spawned.kind = "rescan"
    /\ Spawned.request.snapshot_id = selected_snapshot_id
    /\ Spawned.request.limit = Some(page_size)
    /\ SubmittedEmpty => Spawned.request.filter = None
    /\ SubmittedCompiling => Spawned.request.filter = Some(parse_filter(trim(ev.arg[1])).val)

\* C13 as stated: a submission of empty or compiling text resets the limit and
\* spawns the one rescan, and an empty one leaves the filtered-row display cleared.
C13_DisplayCleared ==
    (SubmittedEmpty \/ SubmittedCompiling) =>
        /\ SubmitRescans
        /\ SubmittedEmpty => status_bar.filtered_rows = None

\* the step is the submission of text
SubmitStep(text) == ev' = FgStep("SubmitFilter", Some(text))

\* the request the submission of text asks for when it asks for one
submitted_filter(text) ==
    IF trim(text) = << >> THEN None ELSE Some(parse_filter(trim(text)).val)

\* C13: a submission of empty or compiling text resets limit to page_size and spawns
\* exactly one rescan scoped to the current snapshot, unfiltered for empty text and
\* with the compiled predicate otherwise; empty text clears the status bar's
\* filter-active flag, and the filtered-row display is cleared by the next merged
\* DataReady.
C13_SubmitFilterRescan ==
    [][ /\ \A text \in FilterTexts :
              (SubmitStep(text) /\ (trim(text) = << >> \/ parse_filter(trim(text)).ok)) =>
                  /\ limit' = Some(page_size)
                  /\ bus' = bus
                  /\ Len(tasks') = Len(tasks) + 1
                  /\ SubSeq(tasks', 1, Len(tasks)) = tasks
                  /\ tasks'[Len(tasks')].kind = "rescan"
                  /\ tasks'[Len(tasks')].pc = "start"
                  /\ tasks'[Len(tasks')].request.snapshot_id = selected_snapshot_id'
                  /\ tasks'[Len(tasks')].request.limit = Some(page_size)
                  /\ tasks'[Len(tasks')].request.filter = submitted_filter(text)
                  /\ trim(text) = << >> => ~status_bar'.filter_active
        /\ (MergesDataReady /\ ~status_bar.filter_active) => status_bar'.filtered_rows = None
      ]_vars

\* an empty text has just been submitted over a filtered view: the rescan is
\* spawned and the filtered count is still displayed
C13_Witness ==
    /\ SubmittedEmpty
    /\ ev.pre.applied_filter # None
    /\ status_bar.filtered_rows # None
    /\ ~status_bar.filter_active
    /\ Spawned.kind = "rescan" /\ Spawned.request.filter = None

\* C14: a submission of non-empty text that does not compile posts exactly one
\* Error, spawns no task and leaves the displayed rows as they were.
C14_FilterErrorOnly ==
    [][ \A text \in FilterTexts :
           (SubmitStep(text) /\ trim(text) # << >> /\ ~parse_filter(trim(text)).ok) =>
               /\ Len(bus') = Len(bus) + 1
               /\ SubSeq(bus', 1, Len(bus)) = bus
               /\ bus'[Len(bus')].type = "Error"
               /\ tasks' = tasks
               /\ data_view' = data_view
      ]_vars

\* a text that does not compile has just been submitted over displayed rows
C14_Witness ==
    /\ ev.op = "SubmitFilter" /\ ~SubmittedEmpty /\ ~SubmittedCompiling
    /\ data_view.batches # << >>
    /\ data_view.batches = ev.pre.rows
    /\ bus # << >> /\ Last(bus).type = "Error"
    /\ Len(tasks) = ev.pre.ntasks

\* the selections made so far, each named by the rescan it spawned (in a session on
\* the Snapshots and Files tabs nothing else spawns a rescan)
Selections == { i \in DOMAIN tasks : tasks[i].kind = "rescan" }

\* the manifest loads spawned after selection i and before the next selection
LoadsFor(i) ==
    { j \in DOMAIN tasks :
        /\ j > i /\ tasks[j].kind = "load_manifests"
        /\ ~\E k \in Selections : i < k /\ k < j }

\* C15: after a snapshot selection the manifests are loaded exactly once for it: the
\* first entry into the Files tab spawns one load, later re-entries without a new
\* selection spawn none.
C15_LoadedOncePerSelection ==
    \A i \in Selections :
        /\ Cardinality(LoadsFor(i)) <= 1
        /\ (active_tab = "Files" /\ ~\E k \in Selections : k > i) => LoadsFor(i) # { }

\* the Files tab was left and entered again while the first load for the selection
\* was still running, and a second load for the same selection has been spawned
C15_Witness ==
    \E i \in Selections : \E j, k \in LoadsFor(i) :
        /\ j < k
        /\ tasks[j].pc # "done"
        /\ tasks[j].request.snapshot_id = tasks[k].request.snapshot_id
        /\ active_tab = "Files"

\* the last selection made
LastSelection(i) == i \in Selections /\ \A k \in Selections : k <= i

\* task j has posted a message of the type
HasPosted(j, type) == \E n \in DOMAIN tasks[j].log : tasks[j].log[n] = type

\* C16: a selection leaves the manifest panel's cache empty and marked as needing
\* load, and the panel holds manifests, file stats or the loaded mark again only
\* once a load spawned for that selection has delivered them.
C16_InvalidUntilReloaded ==
    /\ ev.op = "SelectSnapshot" => manifest_panel = invalidate(manifest_panel)
    /\ \A i \in Selections : LastSelection(i) =>
          /\ (manifest_panel.loaded \/ manifest_panel.manifests # << >>) =>
                \E j \in LoadsFor(i) : HasPosted(j, "ManifestsReady")
          /\ manifest_panel.files_by_manifest # << >> =>
                \E j \in LoadsFor(i) : HasPosted(j, "DataFileStatsReady")

\* an older snapshot is selected, no load has been spawned for it, and the panel is
\* marked loaded with the manifests a load for the head delivered after the selection
C16_Witness ==
    /\ selected_snapshot_id = Some(1)
    /\ \E i \in Selections : LastSelection(i) /\ LoadsFor(i) = { }
    /\ manifest_panel.loaded
    /\ Len(manifest_panel.manifests) = Len(SampleTable.manifests[2])
    /\ \E j \in DOMAIN tasks :
          /\ tasks[j].kind = "load_manifests" /\ tasks[j].request.snapshot_id = None
          /\ HasPosted(j, "ManifestsReady")

\* task t's scan returns in this step and its result is posted
PostsDataReady(t) ==
    /\ tasks[t].pc = "scan" /\ tasks'[t].pc # "scan"
    /\ Len(bus') = Len(bus) + 2
    /\ bus'[Len(bus) + 1].type = "DataReady"

\* the rows the table store has for task t's request
Available(t) == total_row_count(scan_stream(tasks[t].handle[1], tasks[t].request))

\* C17: a scan with limit L reports has_more exactly when the rows it collected
\* reached L: a result of fewer than L rows has has_more = FALSE, one of exactly L
\* rows has has_more = TRUE; a scan without a limit reports has_more = FALSE.
C17_HasMoreIffLimitReached ==
    [][ \A t \in DOMAIN tasks : PostsDataReady(t) =>
           LET result == bus'[Len(bus) + 1]
               lim    == tasks[t].request.limit
           IN  /\ lim = None => (~result.has_more /\ result.total_rows = Available(t))
               /\ lim # None =>
                     /\ result.has_more <=> Available(t) >= lim[1]
                     /\ result.has_more <=> result.total_rows = lim[1]
                     /\ result.total_rows <= lim[1]
                     /\ result.total_rows = total_row_count(result.batches)
      ]_vars

\* the rows task t's scan had collected when it stopped reading
Collected(t) ==
    collect_from(scan_stream(tasks[t].handle[1], tasks[t].request), 1, << >>, 0,
                 tasks[t].request.limit)[2]

\* one scan stopped with exactly its limit collected and reported has_more, a later
\* one collected fewer rows than its limit and reported none
C17_Witness ==
    \E t, u \in DOMAIN tasks :
        /\ tasks[t].kind = "rescan" /\ HasPosted(t, "DataReady")
        /\ tasks[t].request.limit # None /\ Collected(t) = tasks[t].request.limit[1]
        /\ ScanOf(t).has_more
        /\ tasks[u].kind = "rescan" /\ HasPosted(u, "DataReady")
        /\ tasks[u].request.limit # None /\ Collected(u) < tasks[u].request.limit[1]
        /\ ~ScanOf(u).has_more

\* C18: under a fair scheduler, whenever no background task is running and the bus
\* is empty the status bar's loading message is none, whatever the interleaving and
\* whichever table-store calls failed, and the session does reach that state for good.
C18_IdleMeansNotLoading ==
    /\ [](Idle => status_bar.loading_message = None)
    /\ <>[](Idle /\ status_bar.loading_message = None)

\* everything has completed after a rescan that failed, and a loading message had
\* been shown on the way
C18_Witness ==
    /\ Idle
    /\ status_bar.loading_message = None
    /\ status_bar.error_message # None
    /\ \E t \in DOMAIN tasks :
          /\ tasks[t].kind = "rescan"
          /\ HasPosted(t, "LoadingStarted") /\ HasPosted(t, "Error")

\* the manifest loop of task t ends in this step
EndsManifestLoop(t) ==
    /\ tasks[t].kind = "load_manifests"
    /\ tasks[t].pc = "manifest" /\ tasks'[t].pc = "done"

\* the number of Errors task t has posted
ErrorsOf(t) == Cardinality({ k \in DOMAIN tasks[t].log : tasks[t].log[k] = "Error" })

\* C19: a manifest that fails to load does not stop the run: the ManifestsReady
\* posted at its end has a summary for every manifest of the list, the
\* DataFileStatsReady one group per manifest in the same order, the group of a
\* failed manifest being empty, and one Error has been posted per failed manifest.
C19_FailedManifestSkipped ==
    [][ \A t \in DOMAIN tasks : EndsManifestLoop(t) =>
           LET ms    == TaskManifests(t)
               n     == Len(bus')
           IN  /\ n >= Len(bus) + 3
               /\ bus'[n - 2].type = "ManifestsReady"
               /\ bus'[n - 2].manifests = [i \in DOMAIN ms |-> ManifestInfo(ms[i])]
               /\ bus'[n - 1].type = "DataFileStatsReady"
               /\ Len(bus'[n - 1].grouped) = Len(ms)
               /\ \A i \in DOMAIN ms : bus'[n - 1].grouped[i] \in { << >>, ms[i].record_counts }
               /\ ErrorsOf(t)' = Cardinality({ i \in DOMAIN ms : bus'[n - 1].grouped[i] = << >> })
      ]_vars

\* a run over two manifests has ended: the first failed to load, the second was
\* read, one Error was posted and both results were
C19_Witness ==
    \E t \in DOMAIN tasks :
        /\ tasks[t].kind = "load_manifests" /\ Finished(t)
        /\ tasks[t].handle # None
        /\ Len(TaskManifests(t)) = 2
        /\ tasks[t].groups = << << >>, TaskManifests(t)[2].record_counts >>
        /\ Len(tasks[t].infos) = 2
        /\ ErrorsOf(t) = 1
        /\ HasPosted(t, "ManifestsReady") /\ HasPosted(t, "DataFileStatsReady")

\* task t of a manifest load finds a handle whose table does not resolve the snapshot
FindsNoSnapshot(t) ==
    /\ tasks[t].kind = "load_manifests"
    /\ tasks[t].pc = "locked" /\ tasks'[t].pc # "locked"
    /\ TABLE_HANDLE # None
    /\ resolve_snapshot(TABLE_HANDLE[1].table, tasks[t].request.snapshot_id) = None

\* C20: a manifest load for a snapshot that does not resolve (an id the table does
\* not have, or the head of a table without a current snapshot) posts an empty
\* ManifestsReady and an empty DataFileStatsReady and no Error.
C20_UnresolvedSnapshotEmpty ==
    [][ \A t \in DOMAIN tasks : FindsNoSnapshot(t) =>
           /\ bus' = bus \o << ManifestsReady(<< >>), DataFileStatsReady(<< >>), LoadingFinished >>
           /\ ErrorsOf(t)' = 0
           /\ Finished(t)'
      ]_vars

\* the Files tab was opened on a table without a snapshot: the load has ended with
\* two results and no Error, and the panel is loaded and empty
C20_Witness ==
    /\ store = EmptyTable
    /\ \E t \in DOMAIN tasks :
          /\ tasks[t].kind = "load_manifests" /\ Finished(t)
          /\ tasks[t].handle # None
          /\ resolve_snapshot(tasks[t].handle[1].table, tasks[t].request.snapshot_id) = None
          /\ HasPosted(t, "ManifestsReady") /\ HasPosted(t, "DataFileStatsReady")
          /\ ErrorsOf(t) = 0
    /\ manifest_panel.loaded /\ manifest_panel.manifests = << >>
    /\ manifest_panel.files_by_manifest = << >>

ManifestLoads == { t \in DOMAIN tasks : tasks[t].kind = "load_manifests" }

\* task t is waiting for the file details of the last manifest of its list
AwaitsLastManifest(t) ==
    /\ tasks[t].pc = "manifest"
    /\ Len(tasks[t].groups) = Len(TaskManifests(t)) - 1

\* in task t's run ManifestsReady comes right before DataFileStatsReady
SummariesThenDetails(t) ==
    \E k \in DOMAIN tasks[t].log :
        /\ tasks[t].log[k] = "ManifestsReady"
        /\ k + 1 \in DOMAIN tasks[t].log
        /\ tasks[t].log[k + 1] = "DataFileStatsReady"

CountTasks == { t \in DOMAIN tasks : tasks[t].kind = "count_rows" }

\* the count of task t returns in this step
CountEnds(t) == t \in CountTasks /\ tasks[t].pc = "count" /\ tasks'[t].pc = "done"

\* the live rows of snapshot id of the sample table, counted by hand
LiveRows(id) == IF id = 1 THEN 3 ELSE 5

\* the snapshot task t counts, when the table has it
Counted(t) == resolve_snapshot(tasks[t].handle[1].table, tasks[t].request.snapshot_id)

\* C22: a row count that succeeds posts exactly one TotalRowCount, the sum of the
\* record counts of the live entries of its snapshot; one that fails at any step
\* posts nothing, and the count by itself changes nothing the foreground displays.
C22_CountOrSilence ==
    [][ \A t \in DOMAIN tasks : CountEnds(t) =>
           /\ IF faults' = faults /\ Counted(t) # None
              THEN bus' = Append(bus, TotalRowCount(LiveRows(Counted(t)[1])))
              ELSE bus' = bus
           /\ status_bar' = status_bar
           /\ Len(tasks'[t].log) <= 1
      ]_vars

\* of two row counts that have ended one failed and posted nothing, the other
\* posted the live rows of the older snapshot, which the status bar now displays
C22_Witness ==
    \E t, u \in CountTasks :
        /\ Finished(t) /\ tasks[t].log = << >>
        /\ Finished(u) /\ tasks[u].log = << "TotalRowCount" >>
        /\ tasks[u].request.snapshot_id = Some(1)
        /\ status_bar.table_total_rows = Some(LiveRows(1))
        /\ bus = << >>


\* the steps that hide or show columns
ColumnSteps == { "ToggleColumn", "ToggleColumnSelector", "CloseColumnSelector" }

\* C23: hiding or showing columns spawns no task, and a scan request carries a
\* column projection only when it is the initial scan of a session started with a
\* column preference.
C23_DisplayOnly ==
    [][ /\ ev'.op \in ColumnSteps => tasks' = tasks
        /\ \A t \in DOMAIN tasks' :
              tasks'[t].request.columns # None =>
                 tasks'[t].kind = "initial_load" /\ initial_columns # None
      ]_vars

\* without a column preference column "b" was hidden and the data reloaded: the
\* rescan asked for column "a" alone, the merged result has no column "b", and the
\* column selector no longer offers it
C23_Witness ==
    /\ initial_columns = None
    /\ \E t \in DOMAIN tasks :
          /\ tasks[t].kind = "rescan" /\ Finished(t)
          /\ tasks[t].request.columns = Some(<< "a" >>)
    /\ data_view.all_columns = << "a" >>
    /\ column_selector.columns = << "a" >>
    /\ store.columns = << "a", "b" >>
    /\ bus = << >>

\* the text submitted by the step that led to this state
Submitted(text) == ev.op = "SubmitFilter" /\ ev.arg = Some(text)

\* the submission spawned a rescan filtered by pred
CompiledTo(pred) ==
    /\ Len(tasks) = ev.pre.ntasks + 1
    /\ Spawned.kind = "rescan"
    /\ Spawned.request.filter = Some(pred)

\* the submission spawned nothing and posted the compiler's error
Rejected ==
    /\ Len(tasks) = ev.pre.ntasks
    /\ Len(bus) = ev.pre.nbus + 1
    /\ Last(bus).type = "Error"

Compare(col, op, datum) == [op |-> "Compare", col |-> col, cmp |-> op, datum |-> datum]

Str(v) == [t |-> "String", string |-> v]

\* C24: for every column, operator and valid literal, quoted text with operator
\* characters included, "<col> <op> <value>" compiles to the Compare node of that
\* column and operator with the literal's typed Datum.
C24_ComparisonCompiles ==
    \A col \in FilterColumns, op \in CompareOps, k \in DOMAIN Literals :
        Submitted(Comparison(col, op, Literals[k].text)) =>
            CompiledTo(Compare(col, op, Literals[k].datum))

\* a = 'x>y' has compiled to a comparison by > of the column "a = 'x" with the
\* text "y'"
C24_Witness ==
    /\ Submitted(<< "a", " ", "=", " ", "'", "x", ">", "y", "'" >>)
    /\ CompiledTo(Compare(<< "a", " ", "=", " ", "'", "x" >>, << ">" >>, Str(<< "y", "'" >>)))

\* C25: compiling never panics: a non-empty text submitted either compiles to a
\* predicate or is rejected with an error.
C25_CompilesOrRejects ==
    /\ ev.op # "panic"
    /\ (ev.op = "SubmitFilter" /\ ~SubmittedEmpty) =>
          \/ Len(tasks) = ev.pre.ntasks + 1 /\ Spawned.request.filter # None
          \/ Rejected

\* the text U+0131 U+0131 "a" was submitted and the compiler panicked: the process
\* has ended with its tasks and messages dropped
C25_Witness ==
    /\ ev.op = "panic"
    /\ ev.arg = Some(<< "U+0131", "U+0131", "a" >>)
    /\ tasks = << >> /\ bus = << >>

\* the texts of one comparison whose quoted literal holds a combinator keyword,
\* each with its column and the text between the quotes
QuotedKeywordTexts ==
    << [text |-> << "n", "a", "m", "e", " ", "=", " ", "'", "A", " ", "A", "N", "D", " ", "B", "'" >>, col |-> << "n", "a", "m", "e" >>, inner |-> << "A", " ", "A", "N", "D", " ", "B" >>],
       [text |-> << "a", " ", "=", " ", "'", "a", " ", "o", "r", " ", "b", "'" >>, col |-> << "a" >>, inner |-> << "a", " ", "o", "r", " ", "b" >>],
       [text |-> << "i", "d", " ", "=", " ", "'", "A", " ", "A", "N", "D", " ", "B", "'" >>, col |-> << "i", "d" >>, inner |-> << "A", " ", "A", "N", "D", " ", "B" >>],
       [text |-> << "U+0131", "U+0131", " ", "=", " ", "'", " ", "A", "N", "D", " ", "b", "U+0149", "U+0149", "'" >>,
        col |-> << "U+0131", "U+0131" >>, inner |-> << " ", "A", "N", "D", " ", "b", "U+0149", "U+0149" >>] >>

\* C26: a combinator keyword inside a single-quoted literal, in any letter case, is
\* never taken as a combinator: the text compiles to the single Compare node.
C26_QuotedKeywordKept ==
    \A k \in DOMAIN QuotedKeywordTexts :
        Submitted(QuotedKeywordTexts[k].text) =>
            CompiledTo(Compare(QuotedKeywordTexts[k].col, << "=" >>,
                               Str(QuotedKeywordTexts[k].inner)))

\* the text with the literal ' AND b U+0149 U+0149' after the column U+0131 U+0131
\* was split at the AND inside the quotes and rejected
C26_Witness ==
    /\ Submitted(QuotedKeywordTexts[4].text)
    /\ Rejected
    /\ split_combinator(QuotedKeywordTexts[4].text, KW_AND).kind = "Some"
    /\ split_combinator(QuotedKeywordTexts[4].text, KW_AND).left = << "U+0131", "U+0131", " ", "=" >>

Node(op, l, r) == [op |-> op, l |-> l, r |-> r]

\* the tree of clause 1, k, clause 2
Tree2(k) == Node(Connectives[k].op, Clauses[1].pred, Clauses[2].pred)

\* the tree of clause 1, k, clause 2, m, clause 3: right-leaning, AND below OR
Tree3(k, m) ==
    IF Connectives[k].op = "Or"
    THEN Node("Or", Clauses[1].pred, Node(Connectives[m].op, Clauses[2].pred, Clauses[3].pred))
    ELSE IF Connectives[m].op = "And"
    THEN Node("And", Clauses[1].pred, Node("And", Clauses[2].pred, Clauses[3].pred))
    ELSE Node("Or", Node("And", Clauses[1].pred, Clauses[2].pred), Clauses[3].pred)

\* C27: clauses joined by AND and OR, in any letter case, compile to a right-leaning
\* tree in which AND binds tighter than OR: x OR y OR z is Or(x, Or(y, z)), x AND y
\* is And(x, y), and each operand of a top-level OR is compiled as an AND chain.
C27_RightLeaningTree ==
    \A k \in DOMAIN Connectives :
        /\ Submitted(Chain2(k)) => CompiledTo(Tree2(k))
        /\ \A m \in DOMAIN Connectives : Submitted(Chain3(k, m)) => CompiledTo(Tree3(k, m))

\* a = 1 AND b < 2 Or c = 'x y' has compiled to Or(And(a = 1, b < 2), c = 'x y')
C27_Witness ==
    /\ Submitted(Chain3(1, 4))
    /\ CompiledTo(Node("Or", Node("And", Clauses[1].pred, Clauses[2].pred), Clauses[3].pred))

\* the operators in the order the claim gives
Priority == << << ">", "=" >>, << "<", "=" >>, << "!", "=" >>, << ">" >>, << "<" >>, << "=" >> >>

\* the first operator of that order that occurs anywhere in text
Chosen(text) ==
    Priority[CHOOSE k \in DOMAIN Priority :
                /\ find(text, Priority[k]) # 0
                /\ \A j \in 1..(k - 1) : find(text, Priority[j]) = 0]

\* text cut at the first occurrence of the chosen operator
CutAtChosen(text) ==
    Compare(trim(Slice(text, 1, find(text, Chosen(text)) - 1)), Chosen(text),
            string_to_datum(Slice(text, find(text, Chosen(text)) + Len(Chosen(text)), Len(text))))

\* single clauses with one operator or several
ClauseTexts == ComparisonTexts \cup { << "a", "<", "=", "1" >>, << "a", " ", "=", ">", " ", "1" >> }

\* C28: the operator of a clause is the first of >=, <=, !=, >, <, = that occurs
\* anywhere in the clause, not the leftmost symbol; the column is the text before
\* its first occurrence and the value the text after it.
C28_OperatorByPriority ==
    (ev.op = "SubmitFilter" /\ ev.arg[1] \in ClauseTexts) => CompiledTo(CutAtChosen(ev.arg[1]))

\* a => 1 has compiled to a comparison by > of the column "a =" with 1, although =
\* is the leftmost operator symbol
C28_Witness ==
    /\ Submitted(<< "a", " ", "=", ">", " ", "1" >>)
    /\ CompiledTo(Compare(<< "a", " ", "=" >>, << ">" >>, [t |-> "Long", long |-> 1]))

\* C29: an entry of an IN list is typed as a comparison value is: quoted text is a
\* Str, unquoted text a Long, else a Double, else a Bool, else a Str; and
\* status IN ('x', 'y') is In(status, [Str x, Str y]).
C29_SameTypingInList ==
    /\ \A k \in DOMAIN Literals :
          Submitted(InList(Literals[k].text)) =>
              CompiledTo([op |-> "In", col |-> << "a" >>,
                          values |-> << Literals[k].datum, Str(<< "x" >>) >>])
    /\ Submitted(<< "s", "t", "a", "t", "u", "s", " ", "I", "N", " ", "(", "'", "x", "'", ",", " ", "'", "y", "'", ")" >>) =>
          CompiledTo([op |-> "In", col |-> << "s", "t", "a", "t", "u", "s" >>,
                      values |-> << Str(<< "x" >>), Str(<< "y" >>) >>])

\* a IN ('1', 'x') has compiled to In(a, [Long 1, Str x]): the quoted 1 is a number
C29_Witness ==
    /\ Submitted(InList(<< "'", "1", "'" >>))
    /\ CompiledTo([op |-> "In", col |-> << "a" >>,
                   values |-> << [t |-> "Long", long |-> 1], Str(<< "x" >>) >>])

\* task t looked into the slot, found no handle and reported it
FoundSlotEmpty(t) ==
    /\ tasks[t].kind \in { "rescan", "load_manifests" }
    /\ Finished(t) /\ tasks[t].handle = None
    /\ HasPosted(t, "Error")

\* C30: once the foreground has merged the initial load's DataReady or its closing
\* LoadingFinished the handle is installed: no rescan and no manifest load spawned
\* by a user action after that finds the slot empty and reports "No table loaded".
C30_InstalledOnceMerged == \A t \in DOMAIN tasks : ~FoundSlotEmpty(t)

\* the initial load has delivered its data and the view displays it, the reload
\* requested after that has found the slot empty, and the initial load has still
\* to install its handle
C30_Witness ==
    /\ HasPosted(1, "DataReady") /\ data_view.batches # << >>
    /\ tasks[1].pc \in { "install", "locked" }
    /\ TABLE_HANDLE = None
    /\ \E t \in DOMAIN tasks : tasks[t].kind = "rescan" /\ FoundSlotEmpty(t)

\* the DataReady at the head of the bus is merged by this step
Merges(msg) ==
    /\ bus # << >> /\ Head(bus) = msg /\ msg.type = "DataReady"
    /\ bus' = Tail(bus) /\ ev'.op = "quiet"

\* the messages that wait on the bus
Waiting == { bus[n] : n \in DOMAIN bus }

\* C31: merging a DataReady sets hasMore to the message's hasMore and limit to the
\* message's totalRows, whichever request produced the message and whatever
\* limit that request asked for.
C31_MergeSetsPagination ==
    [][ \A msg \in Waiting :
           Merges(msg) => has_more' = msg.has_more /\ limit' = Some(msg.total_rows) ]_vars

\* the result of a rescan was merged last: limit and hasMore are the ones of its
\* result, and the limit is not the one the rescan had asked for
C31_Witness ==
    /\ bus = << >>
    /\ \A t \in DOMAIN tasks : Finished(t)
    /\ \E t \in DOMAIN tasks :
          /\ DeliveredData(t)
          /\ limit = Some(total_row_count(ScanOf(t).batches))
          /\ has_more = ScanOf(t).has_more
          /\ limit # tasks[t].request.limit

\* the rescans among the tasks spawned before the last one; in a session whose
\* last action alone reloads or pages, each was spawned by a SubmitFilter
SubmitRescansBefore == { t \in 1..(Len(tasks) - 1) : tasks[t].kind = "rescan" }

\* the predicate of the last rescan a SubmitFilter spawned, None when it spawned
\* none or spawned it for an empty text
LastSubmittedPredicate ==
    IF SubmitRescansBefore = { } THEN None
    ELSE tasks[CHOOSE t \in SubmitRescansBefore :
                   \A u \in SubmitRescansBefore : u <= t].request.filter

\* the last user action was a Reload or an accepted IncreaseLimit
Recompiled == ev.op \in { "Reload", "IncreaseLimit" } /\ Len(tasks) = ev.pre.ntasks + 1

\* C32: the applied filter is the last successfully applied one: a SubmitFilter
\* whose text fails to compile leaves it as it was, and the rescan spawned by a
\* Reload or an IncreaseLimit carries the same predicate as the last rescan
\* spawned by a SubmitFilter.
C32_AppliedIsLastApplied ==
    /\ (ev.op = "SubmitFilter" /\ Len(bus) = ev.pre.nbus + 1) =>
           filter_bar.applied_filter = ev.pre.applied_filter
    /\ Recompiled => Spawned.request.filter = LastSubmittedPredicate

\* a filter was applied, then a text that does not compile was submitted, and the
\* reload or the next page that follows asks for the rows without any filter
\* while the status bar still shows a filter as active
C32_Witness ==
    /\ Recompiled
    /\ LastSubmittedPredicate # None
    /\ Spawned.request.filter = None
    /\ filter_bar.applied_filter # None
    /\ status_bar.filter_active

\* the manifest panel shows manifests and file-stat groups
HoldsBoth == manifest_panel.manifests # << >> /\ manifest_panel.files_by_manifest # << >>

\* the panel's manifests and its groups are the ones manifest load t collected
FromRun(t) ==
    /\ manifest_panel.manifests = tasks[t].infos
    /\ manifest_panel.files_by_manifest = tasks[t].groups

\* C33: whenever the manifest panel holds both manifests and file-stat groups they
\* come from the same LoadManifests run and there is one group per manifest,
\* also when several loads are in flight and when messages arrive after an
\* invalidation.
C33_ManifestsAndGroupsOfOneRun ==
    HoldsBoth =>
        /\ Len(manifest_panel.files_by_manifest) = Len(manifest_panel.manifests)
        /\ \E t \in ManifestLoads : FromRun(t)

\* the panel shows the manifests of the load for the selected snapshot over the
\* groups of the load for the head snapshot, one group more than it has manifests
C33_Witness ==
    /\ HoldsBoth
    /\ active_tab = "Files"
    /\ \E t, u \in ManifestLoads :
          /\ t < u
          /\ manifest_panel.files_by_manifest = tasks[t].groups
          /\ manifest_panel.manifests = tasks[u].infos
          /\ Len(tasks[t].groups) > Len(tasks[u].infos)

\* every LoadingStarted posted so far has been merged
StartsMerged == \A n \in DOMAIN bus : bus[n].type # "LoadingStarted"

\* operation t is in flight: its LoadingStarted has been merged and it has not
\* posted its LoadingFinished
InFlight(t) ==
    /\ HasPosted(t, "LoadingStarted") /\ StartsMerged
    /\ ~HasPosted(t, "LoadingFinished")

\* C34: in every state in which some operation has had its LoadingStarted merged
\* and has not yet posted its LoadingFinished the status bar's loading message is
\* set: no other message of that operation and no completion of another
\* operation clears it.
C34_LoadingWhileInFlight ==
    (\E t \in DOMAIN tasks : InFlight(t)) => status_bar.loading_message # None

\* a manifest load is reading its second manifest after the first one failed: the
\* Error it posted has been merged and the loading message is gone
C34_Witness ==
    /\ bus = << >>
    /\ status_bar.loading_message = None
    /\ status_bar.error_message # None
    /\ \E t \in ManifestLoads :
          /\ InFlight(t)
          /\ tasks[t].pc = "manifest" /\ ErrorsOf(t) = 1
          /\ \A u \in DOMAIN tasks : u # t => Finished(u)

\* the last user action was the submission of a text that did not compile: it
\* posted the one Error and spawned nothing
SubmitFailed ==
    /\ ev.op = "SubmitFilter"
    /\ Len(tasks) = ev.pre.ntasks /\ Len(bus) = ev.pre.nbus + 1

\* C35: a SubmitFilter whose text fails to compile leaves the pagination state
\* unchanged: limit and hasMore are after the action what they were before it.
C35_FailedSubmitKeepsPagination ==
    SubmitFailed => limit = ev.pre.limit /\ has_more = ev.pre.has_more

\* five rows are displayed and limit was Some(5); after the submission of a text
\* that does not compile the rows are still displayed and limit is the page size
C35_Witness ==
    /\ SubmitFailed
    /\ data_view.total_rows = 5 /\ ev.pre.limit = Some(5)
    /\ limit = Some(page_size) /\ page_size < 5
    /\ has_more = ev.pre.has_more

\* C36: the columns offered by the column selector, the data view's all-columns
\* set, are never reduced by hiding columns: once rows are displayed, both list
\* every column of the table, also after a column was hidden and the result of a
\* later rescan was merged.
C36_ColumnsStayListed ==
    data_view.all_columns # << >> =>
        /\ data_view.all_columns = store.columns
        /\ column_selector.columns = store.columns

\* column "b" was hidden, the data was reloaded and its result merged, and the
\* column selector, opened again, has a row for "a" alone: there is nothing to
\* press to bring "b" back
C36_Witness ==
    /\ column_selector.visible
    /\ column_selector.columns = << "a" >> /\ column_selector.enabled = << TRUE >>
    /\ data_view.all_columns = << "a" >> /\ data_view.batches # << >>
    /\ "b" \in Range(store.columns)
    /\ Idle
    /\ \E t \in DOMAIN tasks : tasks[t].kind = "rescan" /\ HasPosted(t, "DataReady")

\* what C37 says the data view shows after the merge of msg
kept_or_reset(msg) ==
    LET new_cols == column_names(msg.batches)
    IN  IF Range(new_cols) = Range(data_view.all_columns) /\ data_view.visible_columns # << >>
        THEN data_view.visible_columns
        ELSE new_cols

\* C37: on merging DataReady the data view keeps the user's visible-column
\* selection when the result's column set equals the previous one, and resets it
\* to all columns of the result when the column set differs or when no column
\* was visible.
C37_SelectionKeptOrReset ==
    [][ \A msg \in Waiting :
           Merges(msg) => data_view'.visible_columns = kept_or_reset(msg) ]_vars

\* started with --columns a, the user had made "b" visible too and reloaded: the
\* rescan asked for both columns, its result has the columns the view had, and
\* after the merge the view shows "a" alone
C37_Witness ==
    /\ initial_columns = Some(<< "a" >>)
    /\ Idle
    /\ \E t \in DOMAIN tasks :
          /\ tasks[t].kind = "rescan" /\ HasPosted(t, "DataReady")
          /\ tasks[t].request.columns = Some(<< "a", "b" >>)
    /\ data_view.all_columns = << "a", "b" >>
    /\ data_view.visible_columns = << "a" >>

\* the rows of the head snapshot of the table at the opened location
HeadRows == count_total_rows(TableHandle(store), None).val

\* the step is an accepted IncreaseLimit: it spawns its rescan
AcceptsIncrease == ev'.op = "IncreaseLimit" /\ Len(tasks') = Len(tasks) + 1

\* C38: pagination terminates: with a fixed filter and snapshot and any configured
\* page size every accepted IncreaseLimit asks for strictly more rows than the
\* limit it found, and asking again and again, each result merged, leads to a
\* state with hasMore false in which all rows of the table are loaded.
C38_PaginationTerminates ==
    /\ [][ AcceptsIncrease =>
              Last(tasks').request.limit[1] > unwrap_or(limit, 0) ]_vars
    /\ <>(Idle /\ ~has_more /\ data_view.total_rows = HeadRows)

\* started with --limit 0: more rows were asked for MaxPaging times, every rescan
\* asked for 0 rows, nothing is running, no row is displayed and hasMore is
\* still true
C38_Witness ==
    /\ page_size = 0
    /\ budget = 0 /\ Idle
    /\ has_more /\ limit = Some(0)
    /\ data_view.total_rows = 0 /\ HeadRows = 5
    /\ \A t \in DOMAIN tasks :
          tasks[t].kind = "rescan" => tasks[t].request.limit = Some(0)
    /\ Cardinality({ t \in DOMAIN tasks : tasks[t].kind = "rescan" }) = MaxPaging

\* C39: after the Quit action is handled and the foreground loop has returned the
\* event-reader thread stops on its own: it leaves its polling loop whether or
\* not the terminal delivers another input event.
C39_ReaderStopsOnItsOwn == (event_rx = "dropped") ~> (event_reader = "stopped")

\* the foreground loop has returned after a reload was displayed, and the
\* event-reader thread is still in its polling loop
C39_Witness ==
    /\ event_rx = "dropped" /\ event_reader = "polling"
    /\ ev.op = "Quit" /\ ev.pre.ntasks > 2 /\ ev.pre.nbus = 0
    /\ data_view.batches # << >>

\* the rows of a batch and of a list of batches, in order, each named by its data
\* file and its position in the file's batch
RowsOf(batch) == [k \in 1..batch.num_rows |-> << batch.file, k >>]

RECURSIVE Rows(_)
Rows(batches) == IF batches = << >> THEN << >> ELSE RowsOf(batches[1]) \o Rows(Tail(batches))

\* the rows of the batches before the i-th
RowsBefore(batches, i) == total_row_count(SubSeq(batches, 1, i - 1))

\* the calls of limit_batches that have returned
Returned == { t \in DOMAIN tasks : tasks[t].kind = "limit_batches" /\ tasks[t].pc = "done" }

\* C40: limit_batches(batches, L) returns a prefix of the input rows in their order
\* whose row count is min(L, input rows): a batch the remaining budget covers is
\* kept whole, the batch that exceeds it is sliced to the budget, no batch is
\* returned once the budget is 0; the row count of the result, which DataReady
\* carries as totalRows, never exceeds L.
C40_LimitBatchesPrefix ==
    \A t \in Returned :
        LET input  == tasks[t].request.batches
            L      == tasks[t].request.limit
            result == tasks[t].result
        IN  /\ Rows(result) = SubSeq(Rows(input), 1, Min(L, Len(Rows(input))))
            /\ total_row_count(result) = Min(L, total_row_count(input))
            /\ total_row_count(result) <= L
            /\ Len(result) <= Len(input)
            /\ \A i \in DOMAIN result :
                  /\ RowsBefore(input, i) < L
                  /\ result[i] = slice(input[i], Min(input[i].num_rows, L - RowsBefore(input, i)))
            /\ Len(result) < Len(input) => RowsBefore(input, Len(result) + 1) >= L

\* batches of 2, 2 and 1 rows were limited to 3 rows: the first batch is returned
\* whole, the second with its first row, the third is not returned
C40_Witness ==
    \E t \in Returned :
        /\ tasks[t].request.limit = 3
        /\ tasks[t].request.batches = << Batch(1, 2), Batch(2, 2), Batch(3, 1) >>
        /\ tasks[t].result = << Batch(1, 2), Batch(2, 1) >>

============================================================================
